---- MODULE Spec2Model ----
(***************************************************************************)
(* telegram-auto-checkin: the scheduling and execution core.               *)
(*                                                                         *)
(*   internal/executor/executor.go    TaskExecutor (bounded queue, worker  *)
(*                                    pool), TaskRunner dispatch           *)
(*   internal/scheduler/scheduler.go  Scheduler, runTasksOnce, RunTasks    *)
(*   main.go                          process boundary, exit codes         *)
(*   config (unnamed/part_000)        MergeConfig and the list and field   *)
(*                                    merges under it                      *)
(*                                                                         *)
(* Spec and FairSpec are the running program. PureSpec applies the         *)
(* configuration merges, resolveReplyConfig and NewTaskExecutor to         *)
(* arguments of their own.                                                 *)
(*                                                                         *)
(* Go's select picks one of its ready cases at random: every select of the *)
(* code is a nondeterministic choice among the cases that are ready.       *)
(* The context client.Run hands to the session function is derived from    *)
(* the process-wide one; the model takes them to be cancelled together.    *)
(***************************************************************************)
EXTENDS Integers, Sequences, FiniteSets, TLC

\* ------------------------------------------------------------------ bounds

\* Cron firings whose closure gets as far as its SubmitTask call.
MaxFires == 2

\* The largest worker_count and task_queue_size an account is given.
MaxSize == 5
\* The largest reply_wait_seconds and reply_history_limit a level is given.
MaxReply == 2
\* The longest account list and the longest task list that are merged.
MaxAccounts == 2
MaxTasks == 2

\* -------------------------------------------------------- program constants

\* executor.go:48 and scheduler.go:155,264: default worker count.
DefaultWorkerCount == 4
\* executor.go:51 and scheduler.go:159,268: default queue size.
DefaultQueueSize == 100

\* ------------------------------------------------------------------- errors

\* An error value; NoErr is Go's nil error.
Err(kind, detail) == [kind |-> kind, detail |-> detail]
NoErr == Err("nil", "")

\* context.Canceled, what ctx.Err() returns once the context is cancelled.
ContextCanceled == Err("context.Canceled", "")

\* ------------------------------------------------------------ configuration

\* config.TaskConfig. Enabled is a *bool: "nil" is the absent flag. The
\* reply fields have Go's zero value unless a configuration sets them.
Task(name, target, method, payload, schedule, enabled, runOnStart) ==
    [ Name |-> name, Target |-> target, Method |-> method, Payload |-> payload,
      Schedule |-> schedule, Enabled |-> enabled, RunOnStart |-> runOnStart,
      ReplyWaitSeconds |-> 0, ReplyHistoryLimit |-> 0 ]

\* config.AccountConfig. Phone, password and the reply fields have Go's zero
\* value unless a configuration sets them.
Account(name, appID, appHash, workerCount, taskQueueSize, tasks) ==
    [ Name |-> name, Phone |-> "", Password |-> "",
      AppID |-> appID, AppHash |-> appHash,
      WorkerCount |-> workerCount, TaskQueueSize |-> taskQueueSize,
      ReplyWaitSeconds |-> 0, ReplyHistoryLimit |-> 0,
      Tasks |-> tasks ]

\* config.Config. Proxy, the reply fields, the log settings and the language
\* have Go's zero value unless a configuration sets them.
Config(appID, appHash, accounts) ==
    [ Accounts |-> accounts, Proxy |-> "", AppID |-> appID, AppHash |-> appHash,
      ReplyWaitSeconds |-> 0, ReplyHistoryLimit |-> 0,
      Log |-> [ Dir |-> "", Level |-> "", Format |-> "" ], Language |-> "" ]

\* Schedule expressions cron.AddFunc parses. The parser belongs to
\* robfig/cron; the model knows which of the expressions it uses parse.
ValidSchedules == { "0 8 * * *", "@every 1h" }

\* scheduler.go:26 Scheduler.AddTask: nil, or the parser's error.
AddTaskErr(schedule) ==
    IF schedule \in ValidSchedules THEN NoErr ELSE Err("schedule", schedule)

\* ---- the tasks and accounts the configurations are made of

TCheckin  == Task("t1", "@bot1", "message", "/checkin", "0 8 * * *", "nil", TRUE)
TButton   == Task("t2", "@bot2", "button", "Sign", "", "true", TRUE)
TOff      == Task("t3", "@bot3", "message", "/off", "@every 1h", "false", TRUE)
TBadCron  == Task("t4", "@bot4", "button", "Go", "not-a-cron", "true", FALSE)
TPoll     == Task("t5", "@bot5", "poll", "x", "@every 1h", "nil", FALSE)
TUnnamed  == Task("", "@bot6", "message", "/hi", "", "nil", TRUE)
TManual   == [ Task("t7", "@bot7", "message", "/m", "", "true", FALSE)
                 EXCEPT !.ReplyWaitSeconds = 7, !.ReplyHistoryLimit = 20 ]
TDaily    == Task("t8", "@bot8", "poll", "/daily", "0 8 * * *", "true", FALSE)
TQuick    == Task("t9", "@bot9", "poll", "y", "", "nil", TRUE)

\* One worker, one queue slot: submissions meet a full queue.
AccSmall   == Account("acme", 1, "h1", 1, 1, << TCheckin, TButton, TOff >>)
\* A malformed schedule between two well-formed ones.
AccBadCron == Account("cron", 2, "h2", 1, 2, << TCheckin, TBadCron, TPoll >>)
\* Sizes left to the defaults, credentials left to the global ones.
AccDefault == Account("dflt", 0, "", 0, 0, << TUnnamed >>)
\* Two workers racing for one queue that two schedule entries submit to.
AccPair    == Account("pair", 3, "h3", 2, 2, << TPoll, TDaily >>)
\* Nothing to run in daemon mode: neither run_on_start nor a schedule. A
\* reply wait of its own.
AccManual  == [ Account("man", 4, "h4", 1, 1, << TManual, TOff >>)
                  EXCEPT !.ReplyWaitSeconds = 5 ]
\* No app id anywhere.
AccNoCreds == Account("nocred", 0, "h5", 1, 1, << TButton >>)
\* A well-formed schedule followed by a malformed one.
AccFlaky   == Account("flaky", 6, "h6", 1, 1, << TPoll, TBadCron >>)
\* One task to run at start, then nothing more to do.
AccSib     == Account("sib", 7, "h7", 1, 1, << TQuick >>)
\* No credentials anywhere and no enabled task.
AccIdle    == Account("idle", 0, "", 1, 1, << TOff >>)

Configs ==
    { Config(9, "gh", << AccBadCron >>),
      Config(9, "gh", << AccDefault >>),
      Config(9, "gh", << AccFlaky, AccSib >>),
      Config(0, "", << AccManual, AccSmall >>),
      Config(0, "", << AccNoCreds, AccPair >>),
      Config(0, "", << AccIdle, AccManual >>) }

Modes == { "once", "daemon" }

\* ------------------------------------------------------------ pure helpers

\* scheduler.go:53 isTaskEnabled.
isTaskEnabledAlways(task) == TRUE
isTaskEnabled(task) ==
    IF task.Enabled = "nil" THEN TRUE ELSE task.Enabled = "true"

\* scheduler.go:332 resolveAppConfig: <<appID, appHash, err>>.
resolveAppConfigGlobalFirst(c, acc) ==
    LET appID   == IF c.AppID = 0 THEN acc.AppID ELSE c.AppID
        appHash == IF c.AppHash = "" THEN acc.AppHash ELSE c.AppHash
    IN  IF appID = 0 \/ appHash = ""
        THEN << 0, "", Err("config", "missing app_id or app_hash") >>
        ELSE << appID, appHash, NoErr >>
resolveAppConfig(c, acc) ==
    LET appID   == IF acc.AppID = 0 THEN c.AppID ELSE acc.AppID
        appHash == IF acc.AppHash = "" THEN c.AppHash ELSE acc.AppHash
    IN  IF appID = 0 \/ appHash = ""
        THEN << 0, "", Err("config", "missing app_id or app_hash") >>
        ELSE << appID, appHash, NoErr >>

\* scheduler.go:153-160 and 262-269: the sizes runTasksOnce and RunTasks pass
\* to NewTaskExecutor.
SessionWorkerCount(acc) ==
    IF acc.WorkerCount <= 0 THEN DefaultWorkerCount ELSE acc.WorkerCount
SessionQueueSize(acc) ==
    IF acc.TaskQueueSize <= 0 THEN DefaultQueueSize ELSE acc.TaskQueueSize

\* executor.go:111-114: the name an execution is logged under.
TaskLogName(task) == IF task.Name = "" THEN task.Target ELSE task.Name

\* The Messenger calls of one execution and the error it ends with.
\* `outcome` is what the Messenger call returns when one is made.
\* executor.go:209 executeTaskWithLogger.
Call(op, task) == [ op |-> op, target |-> task.Target, payload |-> task.Payload ]
executeTaskWithLoggerNoDefault(task, outcome) ==
    IF task.Method = "button"
    THEN [ calls |-> << Call("click_button", task) >>, err |-> outcome ]
    ELSE [ calls |-> << Call("send_text", task) >>, err |-> outcome ]
executeTaskWithLogger(task, outcome) ==
    CASE task.Method = "message" ->
           [ calls |-> << Call("send_text", task) >>, err |-> outcome ]
      [] task.Method = "button" ->
           [ calls |-> << Call("click_button", task) >>, err |-> outcome ]
      [] OTHER ->
           [ calls |-> << >>, err |-> Err("unknown method", task.Method) ]

\* What a Messenger call may return.
MessengerOutcomes == { NoErr, Err("messenger", "rpc failed") }

\* scheduler.go:347 resolveReplyConfig: << replyWaitSeconds, replyHistoryLimit >>.
DefaultReplyWaitSeconds == 3
DefaultReplyHistoryLimit == 10
resolveReplyConfigGlobalLast(c, acc, task) ==
    LET pick(t, a, g, d) == IF g > 0 THEN g ELSE IF t > 0 THEN t ELSE IF a > 0 THEN a ELSE d
    IN  << pick(task.ReplyWaitSeconds, acc.ReplyWaitSeconds, c.ReplyWaitSeconds,
                DefaultReplyWaitSeconds),
           pick(task.ReplyHistoryLimit, acc.ReplyHistoryLimit, c.ReplyHistoryLimit,
                DefaultReplyHistoryLimit) >>
resolveReplyConfig(c, acc, task) ==
    LET wait0 == DefaultReplyWaitSeconds
        hist0 == DefaultReplyHistoryLimit
        wait1 == IF c.ReplyWaitSeconds > 0 THEN c.ReplyWaitSeconds ELSE wait0
        hist1 == IF c.ReplyHistoryLimit > 0 THEN c.ReplyHistoryLimit ELSE hist0
        wait2 == IF acc.ReplyWaitSeconds > 0 THEN acc.ReplyWaitSeconds ELSE wait1
        hist2 == IF acc.ReplyHistoryLimit > 0 THEN acc.ReplyHistoryLimit ELSE hist1
        wait3 == IF task.ReplyWaitSeconds > 0 THEN task.ReplyWaitSeconds ELSE wait2
        hist3 == IF task.ReplyHistoryLimit > 0 THEN task.ReplyHistoryLimit ELSE hist2
    IN  << wait3, hist3 >>

\* ------------------------------------------------------ configuration merge

\* strings.TrimSpace on the account names the configurations use: leading
\* and trailing blanks go, the rest stays.
TrimSpace(str) ==
    CASE str = " "   -> ""
      [] str = " a " -> "a"
      [] str = "b "  -> "b"
      [] OTHER       -> str

\* part_000:266 mergeTask.
mergeTask(base, override) ==
    [ base EXCEPT
        !.Target     = IF override.Target # "" THEN override.Target ELSE @,
        !.Method     = IF override.Method # "" THEN override.Method ELSE @,
        !.Payload    = IF override.Payload # "" THEN override.Payload ELSE @,
        !.Schedule   = IF override.Schedule # "" THEN override.Schedule ELSE @,
        !.Enabled    = IF override.Enabled # "nil" THEN override.Enabled ELSE @,
        !.RunOnStart = IF override.RunOnStart THEN TRUE ELSE @ ]

\* part_000:234 mergeTasks.
mergeTasksTruncate(base, override) ==
    LET minLen == IF Len(override) < Len(base) THEN Len(override) ELSE Len(base)
    IN  [ i \in 1 .. minLen |-> mergeTask(base[i], override[i]) ]
mergeTasks(base, override) ==
    LET maxLen == IF Len(override) > Len(base) THEN Len(override) ELSE Len(base)
    IN  [ i \in 1 .. maxLen |->
            LET hasBase == i <= Len(base)
                hasOverride == i <= Len(override)
            IN  IF hasBase /\ hasOverride THEN mergeTask(base[i], override[i])
                ELSE IF hasBase THEN base[i]
                ELSE override[i] ]

\* part_000:138 mergeAccount.
mergeAccount(base, override) ==
    [ base EXCEPT
        !.Name     = IF override.Name # "" THEN override.Name ELSE @,
        !.Phone    = IF override.Phone # "" THEN override.Phone ELSE @,
        !.Password = IF override.Password # "" THEN override.Password ELSE @,
        !.AppID    = IF override.AppID # 0 THEN override.AppID ELSE @,
        !.AppHash  = IF override.AppHash # "" THEN override.AppHash ELSE @,
        !.Tasks    = IF Len(override.Tasks) > 0
                     THEN mergeTasks(base.Tasks, override.Tasks) ELSE @ ]

\* part_000:161 allAccountsNamed.
allAccountsNamed(accounts) ==
    IF Len(accounts) = 0 THEN FALSE
    ELSE \A i \in DOMAIN accounts : TrimSpace(accounts[i].Name) # ""

\* part_000:173 mergeAccountsByName. overrideIndex keeps, for a key, the
\* last override account that has it; `seen` gets the keys of the base
\* accounts that were merged.
mergeAccountsByName(base, override) ==
    LET keys == { TrimSpace(override[i].Name) : i \in DOMAIN override }
        lastAt(key) ==
            CHOOSE i \in DOMAIN override :
                /\ TrimSpace(override[i].Name) = key
                /\ \A j \in DOMAIN override :
                     TrimSpace(override[j].Name) = key => j <= i
        overrideIndex == [ key \in keys |-> override[lastAt(key)] ]
        seen == { TrimSpace(base[i].Name) : i \in DOMAIN base } \cap keys
        merged == [ i \in 1 .. Len(base) |->
                      IF TrimSpace(base[i].Name) \in keys
                      THEN mergeAccount(base[i], overrideIndex[TrimSpace(base[i].Name)])
                      ELSE base[i] ]
        unseen(acc) == TrimSpace(acc.Name) \notin seen
    IN  merged \o SelectSeq(override, unseen)

\* part_000:202 mergeAccountsByIndex.
mergeAccountsByIndex(base, override) ==
    LET maxLen == IF Len(override) > Len(base) THEN Len(override) ELSE Len(base)
    IN  [ i \in 1 .. maxLen |->
            LET hasBase == i <= Len(base)
                hasOverride == i <= Len(override)
            IN  IF hasBase /\ hasOverride THEN mergeAccount(base[i], override[i])
                ELSE IF hasBase THEN base[i]
                ELSE override[i] ]

\* part_000:125 mergeAccounts: the merged list (<< >> is Go's nil slice) and
\* the error.
LengthMismatch(base, override) ==
    Err("accounts length mismatch",
        "base=" \o ToString(Len(base)) \o " override=" \o ToString(Len(override)))
mergeAccountsPadding(base, override) ==
    IF Len(override) = 0 THEN [ accounts |-> base, err |-> NoErr ]
    ELSE IF allAccountsNamed(base) /\ allAccountsNamed(override)
    THEN [ accounts |-> mergeAccountsByName(base, override), err |-> NoErr ]
    ELSE [ accounts |-> mergeAccountsByIndex(base, override), err |-> NoErr ]
mergeAccounts(base, override) ==
    IF Len(override) = 0 THEN [ accounts |-> base, err |-> NoErr ]
    ELSE IF allAccountsNamed(base) /\ allAccountsNamed(override)
    THEN [ accounts |-> mergeAccountsByName(base, override), err |-> NoErr ]
    ELSE IF Len(base) # Len(override)
    THEN [ accounts |-> << >>, err |-> LengthMismatch(base, override) ]
    ELSE [ accounts |-> mergeAccountsByIndex(base, override), err |-> NoErr ]

\* A nil *Config.
NilConfig == [ nil |-> TRUE ]

\* part_000:95 MergeConfig: the configuration returned and the error.
MergeConfig(base, override) ==
    IF base = NilConfig THEN [ cfg |-> override, err |-> NoErr ]
    ELSE IF override = NilConfig THEN [ cfg |-> base, err |-> NoErr ]
    ELSE LET merged == [ base EXCEPT
                 !.Proxy   = IF override.Proxy # "" THEN override.Proxy ELSE @,
                 !.AppID   = IF override.AppID # 0 THEN override.AppID ELSE @,
                 !.AppHash = IF override.AppHash # "" THEN override.AppHash ELSE @ ]
             r == mergeAccounts(base.Accounts, override.Accounts)
         IN  IF Len(override.Accounts) > 0
             THEN IF r.err # NoErr
                  THEN [ cfg |-> NilConfig, err |-> r.err ]
                  ELSE [ cfg |-> [ merged EXCEPT !.Accounts = r.accounts ],
                         err |-> NoErr ]
             ELSE [ cfg |-> merged, err |-> NoErr ]

\* ---- the values the functions above are applied to

\* All sequences over S of length at most n.
SeqsUpTo(S, n) == UNION { [ 1 .. k -> S ] : k \in 0 .. n }

\* Go's zero values, and values with every field set.
ZeroTask == Task("", "", "", "", "", "nil", FALSE)
FullTask ==
    [ Task("tb", "@b", "message", "pb", "0 8 * * *", "false", FALSE)
        EXCEPT !.ReplyWaitSeconds = 5, !.ReplyHistoryLimit = 7 ]
OverTask ==
    [ Task("to", "@o", "button", "po", "@every 1h", "true", TRUE)
        EXCEPT !.ReplyWaitSeconds = 9, !.ReplyHistoryLimit = 9 ]
ZeroAccount == Account("", 0, "", 0, 0, << >>)
FullAccount ==
    [ Account("base", 1, "hb", 2, 5, << FullTask >>)
        EXCEPT !.Phone = "+1", !.Password = "pwb",
               !.ReplyWaitSeconds = 5, !.ReplyHistoryLimit = 7 ]
ZeroConfig == Config(0, "", << >>)
FullConfig ==
    [ Config(1, "gb", << >>)
        EXCEPT !.Proxy = "socks5://b", !.ReplyWaitSeconds = 5,
               !.ReplyHistoryLimit = 7, !.Language = "en",
               !.Log = [ Dir |-> "./log", Level |-> "info", Format |-> "text" ] ]

\* Base and override tasks: each field of an override is empty or set.
BaseTasks == { ZeroTask, FullTask, [ FullTask EXCEPT !.RunOnStart = TRUE ] }
OverrideTasks ==
    { [ Name |-> n, Target |-> t, Method |-> m, Payload |-> p, Schedule |-> sc,
        Enabled |-> en, RunOnStart |-> ros, ReplyWaitSeconds |-> rw,
        ReplyHistoryLimit |-> rh ] :
        n \in { "", "to" }, t \in { "", "@o" }, m \in { "", "button" },
        p \in { "", "po" }, sc \in { "", "@every 1h" },
        en \in { "nil", "true", "false" }, ros \in BOOLEAN,
        rw \in { 0, 9 }, rh \in { 0, 9 } }

\* Base and override accounts: each field of an override is empty or set.
BaseAccounts == { ZeroAccount, FullAccount }
OverrideAccounts ==
    { [ Name |-> n, Phone |-> ph, Password |-> pw, AppID |-> id, AppHash |-> h,
        WorkerCount |-> wc, TaskQueueSize |-> qs, ReplyWaitSeconds |-> rw,
        ReplyHistoryLimit |-> rh, Tasks |-> ts ] :
        n \in { "", "over" }, ph \in { "", "+2" }, pw \in { "", "pwo" },
        id \in { 0, 8 }, h \in { "", "ho" }, wc \in { 0, 8 }, qs \in { 0, 9 },
        rw \in { 0, 9 }, rh \in { 0, 9 }, ts \in { << >>, << OverTask >> } }

\* Account lists: an account is its name and the side it comes from.
AccountNames == { "a", " a ", "b", " ", "" }
NamedAccount(name, side) == [ ZeroAccount EXCEPT !.Name = name, !.Phone = side ]
BaseAccountLists ==
    SeqsUpTo({ NamedAccount(n, "+base") : n \in AccountNames }, MaxAccounts)
OverrideAccountLists ==
    SeqsUpTo({ NamedAccount(n, "+over") : n \in AccountNames }, MaxAccounts)

\* Task lists.
BaseTaskLists == SeqsUpTo({ ZeroTask, FullTask }, MaxTasks)
OverrideTaskLists == SeqsUpTo({ OverTask, [ ZeroTask EXCEPT !.Target = "@p" ] }, MaxTasks)

\* Configurations: the account lists are a few of the lists above.
BaseConfigLists ==
    { << >>, << NamedAccount("a", "+base") >>, << NamedAccount("", "+base") >>,
      << NamedAccount("a", "+base"), NamedAccount("b", "+base") >> }
OverrideConfigLists ==
    { << >>, << NamedAccount("a", "+over") >>, << NamedAccount("", "+over") >>,
      << NamedAccount("b", "+over"), NamedAccount("c", "+over") >> }
BaseConfigs ==
    { NilConfig } \cup
    { [ c EXCEPT !.Accounts = l ] : c \in { ZeroConfig, FullConfig }, l \in BaseConfigLists }
OverrideConfigs ==
    { NilConfig } \cup
    { [ Accounts |-> l, Proxy |-> px, AppID |-> id, AppHash |-> h,
        ReplyWaitSeconds |-> rw, ReplyHistoryLimit |-> rh,
        Log |-> lg, Language |-> lang ] :
        l \in OverrideConfigLists, px \in { "", "socks5://o" }, id \in { 0, 8 },
        h \in { "", "go" }, rw \in { 0, 9 }, rh \in { 0, 9 },
        lg \in { [ Dir |-> "", Level |-> "", Format |-> "" ],
                 [ Dir |-> "/var/log", Level |-> "debug", Format |-> "json" ] },
        lang \in { "", "zh" } }

\* ---- MergeConfig on Go's memory
\*
\* The merge functions above compute values. Below is the same code with
\* Go's memory in view, so that what a call writes, and what its result
\* shares with its arguments, can be seen. Memory is a sequence of cells and
\* a cell's address is its position; address 0 is nil. A cell holds a Config
\* ([ c |-> ... ], its Accounts a slice) or the backing array of a slice
\* ([ elems |-> ... ]; the Tasks of an account in an array is a slice). A
\* task's Enabled (*bool) is copied as a pointer and never written through;
\* the bool it points to is not a cell of the model.

\* A slice header: backing array, length, capacity. The nil slice.
Slice(arr, len, cap) == [ arr |-> arr, len |-> len, cap |-> cap ]
NilSlice == Slice(0, 0, 0)

\* The elements of a slice.
ElemsAt(mem, s) == IF s.len = 0 THEN << >> ELSE SubSeq(mem[s.arr].elems, 1, s.len)

\* The values in memory: an account list with its task lists, and the
\* configuration a pointer leads to.
AccountsAt(mem, s) ==
    LET e == ElemsAt(mem, s)
    IN  [ i \in 1 .. Len(e) |-> [ e[i] EXCEPT !.Tasks = ElemsAt(mem, @) ] ]
ConfigAt(mem, p) ==
    IF p = 0 THEN NilConfig
    ELSE [ mem[p].c EXCEPT !.Accounts = AccountsAt(mem, @) ]

\* make([]T, 0, cap): a new array with nothing in it.
Make(mem, cap) ==
    [ mem |-> Append(mem, [ elems |-> << >> ]),
      slice |-> Slice(Len(mem) + 1, 0, cap) ]

\* append(s, x). With capacity left x is written into s's own array, at the
\* position after s's last element, whoever else shares the array; without,
\* the elements are copied to a new array of a larger capacity.
AppendTo(mem, s, x) ==
    IF s.len < s.cap
    THEN [ mem |-> [ mem EXCEPT ![s.arr].elems =
                       IF Len(@) > s.len THEN [ @ EXCEPT ![s.len + 1] = x ]
                       ELSE Append(@, x) ],
           slice |-> Slice(s.arr, s.len + 1, s.cap) ]
    ELSE [ mem |-> Append(mem, [ elems |-> Append(ElemsAt(mem, s), x) ]),
           slice |-> Slice(Len(mem) + 1, s.len + 1,
                           IF s.cap = 0 THEN 1 ELSE s.cap + s.cap) ]

\* append for each of xs in turn.
RECURSIVE AppendAll(_, _, _)
AppendAll(mem, s, xs) ==
    IF xs = << >> THEN [ mem |-> mem, slice |-> s ]
    ELSE LET a == AppendTo(mem, s, Head(xs))
         IN  AppendAll(a.mem, a.slice, Tail(xs))

\* part_000:234 mergeTasks on memory: `merged` is a new array
\* (part_000:240), and each element appended is a TaskConfig value, base[i]
\* and override[i] having been copied out of their arrays.
mergeTasksMem(mem, base, override) ==
    LET maxLen == IF override.len > base.len THEN override.len ELSE base.len
        merged == Make(mem, maxLen)
    IN  AppendAll(merged.mem, merged.slice,
                  mergeTasks(ElemsAt(mem, base), ElemsAt(mem, override)))

\* part_000:138 mergeAccount on memory. base and override are AccountConfig
\* values: `merged := base` copies the fields, the Tasks header among them,
\* so merged.Tasks is base's array unless the override has tasks.
mergeAccountMem(mem, base, override) ==
    LET merged == mergeAccount(base, [ override EXCEPT !.Tasks = << >> ])
        tasks == mergeTasksMem(mem, base.Tasks, override.Tasks)
    IN  IF override.Tasks.len > 0
        THEN [ mem |-> tasks.mem, acc |-> [ merged EXCEPT !.Tasks = tasks.slice ] ]
        ELSE [ mem |-> mem, acc |-> merged ]

\* part_000:209-229, the loop of mergeAccountsByIndex from position i on.
RECURSIVE mergeAccountsByIndexLoop(_, _, _, _, _, _)
mergeAccountsByIndexLoop(mem, merged, base, override, i, maxLen) ==
    IF i > maxLen THEN [ mem |-> mem, slice |-> merged ]
    ELSE LET hasBase == i <= base.len
             hasOverride == i <= override.len
             b == mem[base.arr].elems[i]
             o == mem[override.arr].elems[i]
             m == mergeAccountMem(mem, b, o)
             next == IF hasBase /\ hasOverride THEN AppendTo(m.mem, merged, m.acc)
                     ELSE IF hasBase THEN AppendTo(mem, merged, b)
                     ELSE AppendTo(mem, merged, o)
         IN  mergeAccountsByIndexLoop(next.mem, next.slice, base, override,
                                      i + 1, maxLen)

\* part_000:202 mergeAccountsByIndex on memory.
mergeAccountsByIndexMem(mem, base, override) ==
    LET maxLen == IF override.len > base.len THEN override.len ELSE base.len
        merged == Make(mem, maxLen)
    IN  mergeAccountsByIndexLoop(merged.mem, merged.slice, base, override, 1, maxLen)

\* part_000:181-189, the loop of mergeAccountsByName over base from position
\* i on. overrideIndex holds AccountConfig values.
RECURSIVE mergeAccountsByNameLoop(_, _, _, _, _)
mergeAccountsByNameLoop(mem, merged, base, overrideIndex, i) ==
    IF i > base.len THEN [ mem |-> mem, slice |-> merged ]
    ELSE LET acc == mem[base.arr].elems[i]
             key == TrimSpace(acc.Name)
             m == mergeAccountMem(mem, acc, overrideIndex[key])
             next == IF key \in DOMAIN overrideIndex
                     THEN AppendTo(m.mem, merged, m.acc)
                     ELSE AppendTo(mem, merged, acc)
         IN  mergeAccountsByNameLoop(next.mem, next.slice, base, overrideIndex, i + 1)

\* part_000:173 mergeAccountsByName on memory: the map of the override
\* accounts is filled first, `merged` is a new array of base's length
\* (part_000:179), and the override accounts no base account took are
\* appended after the loop over base.
mergeAccountsByNameMem(mem, base, override) ==
    LET over == ElemsAt(mem, override)
        keys == { TrimSpace(over[i].Name) : i \in DOMAIN over }
        lastAt(key) ==
            CHOOSE i \in DOMAIN over :
                /\ TrimSpace(over[i].Name) = key
                /\ \A j \in DOMAIN over : TrimSpace(over[j].Name) = key => j <= i
        overrideIndex == [ key \in keys |-> over[lastAt(key)] ]
        merged == Make(mem, base.len)
        looped == mergeAccountsByNameLoop(merged.mem, merged.slice, base,
                                          overrideIndex, 1)
        seen == { TrimSpace(mem[base.arr].elems[i].Name) : i \in 1 .. base.len } \cap keys
        unseen(acc) == TrimSpace(acc.Name) \notin seen
    IN  AppendAll(looped.mem, looped.slice,
                  SelectSeq(ElemsAt(looped.mem, override), unseen))

\* part_000:125 mergeAccounts on memory: with no override account the slice
\* returned is base's own header.
mergeAccountsMem(mem, base, override) ==
    IF override.len = 0 THEN [ mem |-> mem, slice |-> base, err |-> NoErr ]
    ELSE IF allAccountsNamed(ElemsAt(mem, base)) /\ allAccountsNamed(ElemsAt(mem, override))
    THEN LET r == mergeAccountsByNameMem(mem, base, override)
         IN  [ mem |-> r.mem, slice |-> r.slice, err |-> NoErr ]
    ELSE IF base.len # override.len
    THEN [ mem |-> mem, slice |-> NilSlice,
           err |-> LengthMismatch(ElemsAt(mem, base), ElemsAt(mem, override)) ]
    ELSE LET r == mergeAccountsByIndexMem(mem, base, override)
         IN  [ mem |-> r.mem, slice |-> r.slice, err |-> NoErr ]

\* part_000:95 MergeConfig on memory. base and override are pointers; the
\* memory after the call, the pointer returned and the error. `merged :=
\* *base` is a Config of its own whose Accounts header is base's; it becomes
\* a cell when its address is returned.
MergeConfigMemShared(mem, base, override) ==
    IF base = 0 THEN [ mem |-> mem, cfg |-> override, err |-> NoErr ]
    ELSE IF override = 0 THEN [ mem |-> mem, cfg |-> base, err |-> NoErr ]
    ELSE LET o == mem[override].c
             merged == [ mem[base].c EXCEPT
                 !.Proxy   = IF o.Proxy # "" THEN o.Proxy ELSE @,
                 !.AppID   = IF o.AppID # 0 THEN o.AppID ELSE @,
                 !.AppHash = IF o.AppHash # "" THEN o.AppHash ELSE @ ]
             r == mergeAccountsMem(mem, mem[base].c.Accounts, o.Accounts)
         IN  IF o.Accounts.len > 0
             THEN IF r.err # NoErr
                  THEN [ mem |-> r.mem, cfg |-> 0, err |-> r.err ]
                  ELSE [ mem |-> [ r.mem EXCEPT ![base].c =
                                     [ merged EXCEPT !.Accounts = r.slice ] ],
                         cfg |-> base, err |-> NoErr ]
             ELSE [ mem |-> [ mem EXCEPT ![base].c = merged ],
                    cfg |-> base, err |-> NoErr ]
MergeConfigMem(mem, base, override) ==
    IF base = 0 THEN [ mem |-> mem, cfg |-> override, err |-> NoErr ]
    ELSE IF override = 0 THEN [ mem |-> mem, cfg |-> base, err |-> NoErr ]
    ELSE LET o == mem[override].c
             merged == [ mem[base].c EXCEPT
                 !.Proxy   = IF o.Proxy # "" THEN o.Proxy ELSE @,
                 !.AppID   = IF o.AppID # 0 THEN o.AppID ELSE @,
                 !.AppHash = IF o.AppHash # "" THEN o.AppHash ELSE @ ]
             r == mergeAccountsMem(mem, mem[base].c.Accounts, o.Accounts)
         IN  IF o.Accounts.len > 0
             THEN IF r.err # NoErr
                  THEN [ mem |-> r.mem, cfg |-> 0, err |-> r.err ]
                  ELSE [ mem |-> Append(r.mem, [ c |-> [ merged EXCEPT !.Accounts = r.slice ] ]),
                         cfg |-> Len(r.mem) + 1, err |-> NoErr ]
             ELSE [ mem |-> Append(mem, [ c |-> merged ]),
                    cfg |-> Len(mem) + 1, err |-> NoErr ]

\* The arguments of a call as they lie in memory: a task list in an array of
\* its own, an account list in an array whose accounts point to their task
\* arrays, a configuration in a cell that points to its account array. A
\* list with nothing in it is the nil slice.
PlaceTasks(mem, tasks) ==
    IF Len(tasks) = 0 THEN [ mem |-> mem, slice |-> NilSlice ]
    ELSE [ mem |-> Append(mem, [ elems |-> tasks ]),
           slice |-> Slice(Len(mem) + 1, Len(tasks), Len(tasks)) ]
RECURSIVE PlaceAccountsFrom(_, _, _, _)
PlaceAccountsFrom(mem, accounts, i, placed) ==
    IF i > Len(accounts) THEN [ mem |-> mem, accs |-> placed ]
    ELSE LET t == PlaceTasks(mem, accounts[i].Tasks)
         IN  PlaceAccountsFrom(t.mem, accounts, i + 1,
                               Append(placed, [ accounts[i] EXCEPT !.Tasks = t.slice ]))
PlaceAccounts(mem, accounts) ==
    IF Len(accounts) = 0 THEN [ mem |-> mem, slice |-> NilSlice ]
    ELSE LET p == PlaceAccountsFrom(mem, accounts, 1, << >>)
         IN  [ mem |-> Append(p.mem, [ elems |-> p.accs ]),
               slice |-> Slice(Len(p.mem) + 1, Len(accounts), Len(accounts)) ]
PlaceConfig(mem, config) ==
    IF config = NilConfig THEN [ mem |-> mem, at |-> 0 ]
    ELSE LET a == PlaceAccounts(mem, config.Accounts)
         IN  [ mem |-> Append(a.mem, [ c |-> [ config EXCEPT !.Accounts = a.slice ] ]),
               at |-> Len(a.mem) + 1 ]

\* The configurations MergeConfig is applied to in memory: accounts with and
\* without tasks, named and unnamed, lists of equal and of different length.
TaskedAccount(name, side, tasks) == [ NamedAccount(name, side) EXCEPT !.Tasks = tasks ]
MemBaseLists ==
    { << >>,
      << TaskedAccount("a", "+base", << FullTask >>) >>,
      << TaskedAccount("", "+base", << FullTask, ZeroTask >>) >>,
      << TaskedAccount("a", "+base", << FullTask >>), NamedAccount("b", "+base") >> }
MemOverrideLists ==
    { << >>,
      << TaskedAccount("a", "+over", << OverTask >>) >>,
      << TaskedAccount("", "+over", << OverTask >>) >>,
      << NamedAccount("b", "+over"), TaskedAccount("c", "+over", << OverTask, OverTask >>) >> }
MemBaseConfigs ==
    { NilConfig } \cup
    { [ c EXCEPT !.Accounts = l ] : c \in { ZeroConfig, FullConfig }, l \in MemBaseLists }
MemOverrideConfigs ==
    { NilConfig } \cup
    { [ ZeroConfig EXCEPT !.Accounts = l, !.Proxy = px, !.AppID = id ] :
        l \in MemOverrideLists, px \in { "", "socks5://o" }, id \in { 0, 8 } }

\* The calls of MergeConfig in memory: base and override in cells of their
\* own, or one configuration passed as both.
MemCalls ==
    { LET b == PlaceConfig(<< >>, bo[1])
          o == PlaceConfig(b.mem, bo[2])
      IN  [ fn |-> "MergeConfigMem", mem |-> o.mem, basePtr |-> b.at,
            overridePtr |-> o.at ] : bo \in MemBaseConfigs \X MemOverrideConfigs }
    \cup
    { LET b == PlaceConfig(<< >>, c)
      IN  [ fn |-> "MergeConfigMem", mem |-> b.mem, basePtr |-> b.at,
            overridePtr |-> b.at ] : c \in MemBaseConfigs \ { NilConfig } }

\* Reply settings and executor sizes, non-positive ones included.
ReplyValues == -1 .. MaxReply
SizeValues == -1 .. MaxSize

\* The calls: a function of the program and its arguments.
Calls ==
    { [ fn |-> "mergeTask", baseTask |-> b, overrideTask |-> o ] :
        b \in BaseTasks, o \in OverrideTasks }
    \cup
    { [ fn |-> "mergeTasks", baseTasks |-> b, overrideTasks |-> o ] :
        b \in BaseTaskLists, o \in OverrideTaskLists }
    \cup
    { [ fn |-> "mergeAccount", baseAccount |-> b, overrideAccount |-> o ] :
        b \in BaseAccounts, o \in OverrideAccounts }
    \cup
    { [ fn |-> "mergeAccounts", baseAccounts |-> b, overrideAccounts |-> o ] :
        b \in BaseAccountLists, o \in OverrideAccountLists }
    \cup
    { [ fn |-> "MergeConfig", base |-> b, override |-> o ] :
        b \in BaseConfigs, o \in OverrideConfigs }
    \cup
    MemCalls
    \cup
    { [ fn |-> "resolveReplyConfig",
        cfg |-> [ ZeroConfig EXCEPT !.ReplyWaitSeconds = gw, !.ReplyHistoryLimit = gh ],
        acc |-> [ ZeroAccount EXCEPT !.ReplyWaitSeconds = aw, !.ReplyHistoryLimit = ah ],
        task |-> [ ZeroTask EXCEPT !.ReplyWaitSeconds = tw, !.ReplyHistoryLimit = th ] ] :
        gw \in ReplyValues, gh \in ReplyValues, aw \in ReplyValues,
        ah \in ReplyValues, tw \in ReplyValues, th \in ReplyValues }
    \cup
    { [ fn |-> "NewTaskExecutor", via |-> v,
        acc |-> [ ZeroAccount EXCEPT !.WorkerCount = wc, !.TaskQueueSize = qs ] ] :
        v \in { "direct", "session" }, wc \in SizeValues, qs \in SizeValues }

\* -------------------------------------------------------------------- state

VARIABLES
    cfg,          \* the loaded configuration
    mode,         \* "once" (the -once flag) or "daemon"
    ctxDone,      \* the process-wide cancellation signal (main.go:42)
    proc,         \* "running", "exit0", "exit1", or "panic"
    mainPc,       \* where main's call of runTasksOnce / RunTasks stands
    mainIdx,      \* the account the loop over cfg.Accounts is at
    hasAnyScheduled, \* RunTasks' flag of the same name
    allErrs,      \* runTasksOnce's allErrs
    mainRet,      \* what RunTasksOnce / RunTasks returned: the joined errors
    sess,         \* per account: the function passed to client.Run
    ex,           \* per account: its TaskExecutor
    cronRunning,  \* the shared Scheduler's cron engine has been started
    entries,      \* the schedule entries registered in the shared Scheduler
    firing,       \* closures that passed their ctx check and are at SubmitTask
    fires,        \* the number of such firings so far
    done,         \* the executions that have finished
    warns,        \* per account: the queue-full warnings logged
    subLog,       \* per account: each SubmitTask call, its task and what it returned
    applied,      \* a function of the program applied on its own, and its arguments
    ret,          \* what that call returned
    logNow,       \* time.Now() as the executions' logging sees it, in clock ticks
    logLevel,     \* zerolog's global level (logger.go:100)
    logRun,       \* executions of executeTask followed through their logging
    taskFiles,    \* the task log files: path -> the events in the file
    accountLog    \* the shared account log: per execution, the events it received

vars == << cfg, mode, ctxDone, proc, mainPc, mainIdx, hasAnyScheduled, allErrs,
           mainRet,
           sess, ex, cronRunning, entries, firing, fires, done, warns, subLog,
           applied, ret, logNow, logLevel, logRun, taskFiles, accountLog >>

\* The state of the logging of executions followed on their own.
logVars == << logNow, logLevel, logRun, taskFiles, accountLog >>
NoLogging ==
    /\ logNow = 0
    /\ logLevel = "info"
    /\ logRun = << >>
    /\ taskFiles = << >>
    /\ accountLog = << >>

\* No function is applied on its own; a call that has not returned.
NoCall == [ fn |-> "none" ]
NotReturned == [ returned |-> FALSE ]
Returned(val) == [ returned |-> TRUE, val |-> val ]

NAcc == Len(cfg.Accounts)
Accs == 1 .. NAcc
Acc(a) == cfg.Accounts[a]

\* executor.go:24 TaskRequest. WorkerID has Go's zero value until a worker
\* sets it. `id` numbers the requests an executor accepted.
TaskRequest(task, triggerType, id) ==
    [ Task |-> task, TriggerType |-> triggerType, WorkerID |-> 0, id |-> id ]
NoReq == [ Task |-> Task("", "", "", "", "", "nil", FALSE),
           TriggerType |-> "", WorkerID |-> 0, id |-> 0 ]

\* An account with no executor yet.
NoExec ==
    [ created |-> FALSE, cap |-> 0, workerCount |-> 0, queue |-> << >>,
      closed |-> FALSE, cancelled |-> FALSE,
      wpc |-> [ w \in {} |-> "" ], wreq |-> [ w \in {} |-> NoReq ],
      accepted |-> 0 ]

\* executor.go:46 NewTaskExecutor: the sizes made positive, the queue with
\* its capacity, the executor's own context live, and no worker yet.
NewTaskExecutorKeepZero(workerCount, queueSize) ==
    LET wc == IF workerCount < 0 THEN DefaultWorkerCount ELSE workerCount
        qs == IF queueSize < 0 THEN DefaultQueueSize ELSE queueSize
    IN  [ created |-> TRUE, cap |-> qs, workerCount |-> wc,
          queue |-> << >>, closed |-> FALSE, cancelled |-> FALSE,
          wpc |-> [ w \in {} |-> "" ], wreq |-> [ w \in {} |-> NoReq ],
          accepted |-> 0 ]
NewTaskExecutor(workerCount, queueSize) ==
    LET wc == IF workerCount <= 0 THEN DefaultWorkerCount ELSE workerCount
        qs == IF queueSize <= 0 THEN DefaultQueueSize ELSE queueSize
    IN  [ created |-> TRUE, cap |-> qs, workerCount |-> wc,
          queue |-> << >>, closed |-> FALSE, cancelled |-> FALSE,
          wpc |-> [ w \in {} |-> "" ], wreq |-> [ w \in {} |-> NoReq ],
          accepted |-> 0 ]

\* executor.go:73 Start: workers 0 .. workerCount-1, each at its select.
StartExtraWorker(e) ==
    [ e EXCEPT !.wpc = [ w \in 0 .. e.workerCount |-> "select" ],
               !.wreq = [ w \in 0 .. e.workerCount |-> NoReq ] ]
Start(e) ==
    [ e EXCEPT !.wpc = [ w \in 0 .. (e.workerCount - 1) |-> "select" ],
               !.wreq = [ w \in 0 .. (e.workerCount - 1) |-> NoReq ] ]

Workers(a) == DOMAIN ex[a].wpc

\* client.go NewClient: the identity and the reply policy a client is built
\* with; a wait or a limit that is not positive becomes 3 or 10.
NoClient == [ appID |-> 0, appHash |-> "", replyWaitSeconds |-> 0, replyHistoryLimit |-> 0 ]
NewClient(appID, appHash, replyWaitSeconds, replyHistoryLimit) ==
    [ appID |-> appID, appHash |-> appHash,
      replyWaitSeconds  |-> IF replyWaitSeconds <= 0 THEN DefaultReplyWaitSeconds
                            ELSE replyWaitSeconds,
      replyHistoryLimit |-> IF replyHistoryLimit <= 0 THEN DefaultReplyHistoryLimit
                            ELSE replyHistoryLimit ]

\* scheduler.go:129-138 and 233-248: the client runTasksOnce and RunTasks
\* build for an account, its reply policy resolved with an empty task.
AccountClient(c, acc) ==
    LET app   == resolveAppConfig(c, acc)
        reply == resolveReplyConfig(c, acc, Task("", "", "", "", "", "nil", FALSE))
    IN  NewClient(app[1], app[2], reply[1], reply[2])

\* A session that client.Run has not entered.
NoSess == [ pc |-> "idle", i |-> 1, ret |-> NoErr, taskErrors |-> << >>, client |-> NoClient ]

Running == proc = "running"

\* The least index j >= i of a task that satisfies P, Len(tasks)+1 if none.
RECURSIVE NextFrom(_, _, _)
NextFrom(tasks, i, P) ==
    IF i > Len(tasks) THEN Len(tasks) + 1
    ELSE IF tasks[i] \in P THEN i
    ELSE NextFrom(tasks, i + 1, P)

Init ==
    /\ cfg \in Configs
    /\ mode \in Modes
    /\ ctxDone = FALSE
    /\ proc = "running"
    /\ mainPc = "loop"
    /\ mainIdx = 1
    /\ hasAnyScheduled = FALSE
    /\ allErrs = << >>
    /\ mainRet = << >>
    /\ sess = [ a \in 1 .. Len(cfg.Accounts) |-> NoSess ]
    /\ ex = [ a \in 1 .. Len(cfg.Accounts) |-> NoExec ]
    /\ cronRunning = FALSE
    /\ entries = {}
    /\ firing = {}
    /\ fires = 0
    /\ done = {}
    /\ warns = [ a \in 1 .. Len(cfg.Accounts) |-> << >> ]
    /\ subLog = [ a \in 1 .. Len(cfg.Accounts) |-> << >> ]
    /\ applied = NoCall
    /\ ret = NotReturned
    /\ NoLogging

\* ----------------------------------------------------------------- executor

\* executor.go:221 SubmitTask on executor e: the executor afterwards, what
\* the call returns, the warning it logs (<< >> if none), and whether the send
\* panics (a send on a closed channel panics, also inside a select).
SubmitTaskOffByOne(e, task, triggerType) ==
    IF e.closed
    THEN [ ex |-> e, ok |-> FALSE, warn |-> << >>, panic |-> TRUE ]
    ELSE IF Len(e.queue) <= e.cap
    THEN [ ex |-> [ e EXCEPT !.queue = Append(@, TaskRequest(task, triggerType, e.accepted + 1)),
                             !.accepted = @ + 1 ],
           ok |-> TRUE, warn |-> << >>, panic |-> FALSE ]
    ELSE [ ex |-> e, ok |-> FALSE, warn |-> << task.Name >>, panic |-> FALSE ]
SubmitTask(e, task, triggerType) ==
    IF e.closed
    THEN [ ex |-> e, ok |-> FALSE, warn |-> << >>, panic |-> TRUE ]
    ELSE IF Len(e.queue) < e.cap
    THEN [ ex |-> [ e EXCEPT !.queue = Append(@, TaskRequest(task, triggerType, e.accepted + 1)),
                             !.accepted = @ + 1 ],
           ok |-> TRUE, warn |-> << >>, panic |-> FALSE ]
    ELSE [ ex |-> e, ok |-> FALSE, warn |-> << task.Name >>, panic |-> FALSE ]

\* executor.go:232 SubmitTaskBlocking on executor e with context state
\* `cancelled`: the set of results the select may produce, one for each case
\* that is ready. <-ctx.Done() is ready when the context is cancelled; the
\* send is ready when the queue has a free slot, and also when the queue is
\* closed, and then it panics. Empty: the call blocks (queue open and full,
\* context live).
SubmitTaskBlockingCasesGiveUp(e, cancelled, task, triggerType) ==
    { [ ex |-> e, ok |-> FALSE, panic |-> FALSE ] :
        x \in IF cancelled \/ Len(e.queue) >= e.cap THEN { 0 } ELSE {} }
    \cup
    { [ ex |-> e, ok |-> FALSE, panic |-> TRUE ] :
        x \in IF e.closed THEN { 0 } ELSE {} }
    \cup
    { [ ex |-> [ e EXCEPT !.queue = Append(@, TaskRequest(task, triggerType, e.accepted + 1)),
                          !.accepted = @ + 1 ],
        ok |-> TRUE, panic |-> FALSE ] :
        x \in IF ~e.closed /\ Len(e.queue) < e.cap THEN { 0 } ELSE {} }
SubmitTaskBlockingCases(e, cancelled, task, triggerType) ==
    { [ ex |-> e, ok |-> FALSE, panic |-> FALSE ] :
        x \in IF cancelled THEN { 0 } ELSE {} }
    \cup
    { [ ex |-> e, ok |-> FALSE, panic |-> TRUE ] :
        x \in IF e.closed THEN { 0 } ELSE {} }
    \cup
    { [ ex |-> [ e EXCEPT !.queue = Append(@, TaskRequest(task, triggerType, e.accepted + 1)),
                          !.accepted = @ + 1 ],
        ok |-> TRUE, panic |-> FALSE ] :
        x \in IF ~e.closed /\ Len(e.queue) < e.cap THEN { 0 } ELSE {} }

\* executor.go:89-106, the worker's select. A worker is at "select", inside
\* executeTask ("exec"), or gone ("exited").
\* The cases <-ctx.Done() and <-e.ctx.Done(): the worker returns.
WorkerCanExit(e, cancelled) ==
    \/ cancelled
    \/ e.cancelled
    \/ (e.closed /\ e.queue = << >>)

WorkerExit(a, w) ==
    /\ Running
    /\ ex[a].created
    /\ ex[a].wpc[w] = "select"
    /\ WorkerCanExit(ex[a], ctxDone)
    /\ ex' = [ ex EXCEPT ![a].wpc[w] = "exited" ]
    /\ UNCHANGED << applied, ret, logVars, cfg, mainRet, mode, ctxDone, proc, mainPc, mainIdx, hasAnyScheduled,
                    allErrs, sess, cronRunning, entries, firing, fires, done,
                    warns, subLog >>

\* The case req, ok := <-e.taskQueue with ok: the head of the queue leaves
\* it, gets the worker's id, and executeTask starts.
WorkerDequeuePeek(a, w) ==
    /\ Running
    /\ ex[a].created
    /\ ex[a].wpc[w] = "select"
    /\ ex[a].queue # << >>
    /\ ex' = [ ex EXCEPT ![a].wpc[w] = "exec",
                         ![a].wreq[w] = [ Head(ex[a].queue) EXCEPT !.WorkerID = w ] ]
    /\ UNCHANGED << applied, ret, logVars, cfg, mainRet, mode, ctxDone, proc, mainPc, mainIdx, hasAnyScheduled,
                    allErrs, sess, cronRunning, entries, firing, fires, done,
                    warns, subLog >>
WorkerDequeueLast(a, w) ==
    /\ Running
    /\ ex[a].created
    /\ ex[a].wpc[w] = "select"
    /\ ex[a].queue # << >>
    /\ ex' = [ ex EXCEPT ![a].queue = SubSeq(@, 1, Len(@) - 1),
                         ![a].wpc[w] = "exec",
                         ![a].wreq[w] = [ ex[a].queue[Len(ex[a].queue)] EXCEPT !.WorkerID = w ] ]
    /\ UNCHANGED << applied, ret, logVars, cfg, mainRet, mode, ctxDone, proc, mainPc, mainIdx, hasAnyScheduled,
                    allErrs, sess, cronRunning, entries, firing, fires, done,
                    warns, subLog >>
WorkerDequeueNoId(a, w) ==
    /\ Running
    /\ ex[a].created
    /\ ex[a].wpc[w] = "select"
    /\ ex[a].queue # << >>
    /\ ex' = [ ex EXCEPT ![a].queue = Tail(@),
                         ![a].wpc[w] = "exec",
                         ![a].wreq[w] = Head(ex[a].queue) ]
    /\ UNCHANGED << applied, ret, logVars, cfg, mainRet, mode, ctxDone, proc, mainPc, mainIdx, hasAnyScheduled,
                    allErrs, sess, cronRunning, entries, firing, fires, done,
                    warns, subLog >>
WorkerDequeue(a, w) ==
    /\ Running
    /\ ex[a].created
    /\ ex[a].wpc[w] = "select"
    /\ ex[a].queue # << >>
    /\ ex' = [ ex EXCEPT ![a].queue = Tail(@),
                         ![a].wpc[w] = "exec",
                         ![a].wreq[w] = [ Head(ex[a].queue) EXCEPT !.WorkerID = w ] ]
    /\ UNCHANGED << applied, ret, logVars, cfg, mainRet, mode, ctxDone, proc, mainPc, mainIdx, hasAnyScheduled,
                    allErrs, sess, cronRunning, entries, firing, fires, done,
                    warns, subLog >>

\* executor.go:110 executeTask returns: the Messenger call (if any) has been
\* made and answered, the outcome is logged, the worker is back at its select.
\* The call ran in the session and with the reply policy of the account's client
\* (client.go CheckInMessageInRunWithLogger: c.replyWaitSeconds,
\* c.replyHistoryLimit).
Execution(a, req, res) ==
    [ acc |-> a, id |-> req.id, task |-> req.Task, triggerType |-> req.TriggerType,
      worker |-> req.WorkerID, logName |-> TaskLogName(req.Task),
      calls |-> res.calls, err |-> res.err,
      appID |-> sess[a].client.appID,
      replyWaitSeconds  |-> sess[a].client.replyWaitSeconds,
      replyHistoryLimit |-> sess[a].client.replyHistoryLimit ]

\* executor.go:104-105: whatever executeTask logged, the loop goes round.
WorkerAfterExec(e, w, err) == [ e EXCEPT !.wpc[w] = "select", !.wreq[w] = NoReq ]

WorkerFinishReporting(a, w) ==
    /\ Running
    /\ ex[a].created
    /\ ex[a].wpc[w] = "exec"
    /\ \E outcome \in MessengerOutcomes :
         LET res == executeTaskWithLogger(ex[a].wreq[w].Task, outcome)
         IN  /\ done' = done \cup { Execution(a, ex[a].wreq[w], res) }
             /\ ex' = [ ex EXCEPT ![a] = WorkerAfterExec(@, w, res.err) ]
             /\ allErrs' = IF res.err = NoErr THEN allErrs ELSE Append(allErrs, res.err)
    /\ UNCHANGED << applied, ret, logVars, cfg, mainRet, mode, ctxDone, proc, mainPc, mainIdx, hasAnyScheduled,
                    sess, cronRunning, entries, firing, fires,
                    warns, subLog >>
WorkerFinish(a, w) ==
    /\ Running
    /\ ex[a].created
    /\ ex[a].wpc[w] = "exec"
    /\ \E outcome \in MessengerOutcomes :
         LET res == executeTaskWithLogger(ex[a].wreq[w].Task, outcome)
         IN  /\ done' = done \cup { Execution(a, ex[a].wreq[w], res) }
             /\ ex' = [ ex EXCEPT ![a] = WorkerAfterExec(@, w, res.err) ]
    /\ UNCHANGED << applied, ret, logVars, cfg, mainRet, mode, ctxDone, proc, mainPc, mainIdx, hasAnyScheduled,
                    allErrs, sess, cronRunning, entries, firing, fires,
                    warns, subLog >>

\* executor.go:242 Stop, in its three steps. The session function calls it
\* (deferred) when it returns; sess[a].pc says which step is next.
StopCancel(a) ==
    /\ Running
    /\ sess[a].pc = "stopCancel"
    /\ ex' = [ ex EXCEPT ![a].cancelled = TRUE ]
    /\ sess' = [ sess EXCEPT ![a].pc = "stopClose" ]
    /\ UNCHANGED << applied, ret, logVars, cfg, mainRet, mode, ctxDone, proc, mainPc, mainIdx, hasAnyScheduled,
                    allErrs, cronRunning, entries, firing, fires, done, warns,
                    subLog >>

StopClose(a) ==
    /\ Running
    /\ sess[a].pc = "stopClose"
    /\ ex' = [ ex EXCEPT ![a].closed = TRUE ]
    /\ sess' = [ sess EXCEPT ![a].pc = "stopWait" ]
    /\ UNCHANGED << applied, ret, logVars, cfg, mainRet, mode, ctxDone, proc, mainPc, mainIdx, hasAnyScheduled,
                    allErrs, cronRunning, entries, firing, fires, done, warns,
                    subLog >>

\* e.wg.Wait() returns once every worker has run its deferred wg.Done().
WaitGroupDoneNoWait(e) == TRUE
WaitGroupDone(e) == \A w \in DOMAIN e.wpc : e.wpc[w] = "exited"

StopWait(a) ==
    /\ Running
    /\ sess[a].pc = "stopWait"
    /\ WaitGroupDone(ex[a])
    /\ sess' = [ sess EXCEPT ![a].pc = "ended" ]
    /\ UNCHANGED << applied, ret, logVars, cfg, mainRet, mode, ctxDone, proc, mainPc, mainIdx, hasAnyScheduled,
                    allErrs, ex, cronRunning, entries, firing, fires, done,
                    warns, subLog >>

\* ------------------------------------------------- the session function

\* client.Run has called the session function, which starts with
\* client.AuthInRun (scheduler.go:147, 256). A failed authentication returns
\* the error: no executor exists, nothing is deferred.
SessAuth(a) ==
    /\ Running
    /\ sess[a].pc = "auth"
    /\ \E authErr \in { NoErr, Err("auth", "unauthorized") } :
         sess' = [ sess EXCEPT ![a] =
                     IF authErr = NoErr THEN [ @ EXCEPT !.pc = "new" ]
                     ELSE [ @ EXCEPT !.pc = "ended", !.ret = authErr ] ]
    /\ UNCHANGED << applied, ret, logVars, cfg, mainRet, mode, ctxDone, proc, mainPc, mainIdx, hasAnyScheduled,
                    allErrs, ex, cronRunning, entries, firing, fires, done,
                    warns, subLog >>

\* scheduler.go:152-164 and 261-273: NewTaskExecutor, exec.Start(ctx),
\* defer exec.Stop().
SessNewExecutor(a) ==
    /\ Running
    /\ sess[a].pc = "new"
    /\ ex' = [ ex EXCEPT ![a] =
                 Start(NewTaskExecutor(SessionWorkerCount(Acc(a)),
                                       SessionQueueSize(Acc(a)))) ]
    /\ sess' = [ sess EXCEPT ![a].pc = IF mode = "once" THEN "submit" ELSE "runOnStart",
                             ![a].i = 1 ]
    /\ UNCHANGED << applied, ret, logVars, cfg, mainRet, mode, ctxDone, proc, mainPc, mainIdx, hasAnyScheduled,
                    allErrs, cronRunning, entries, firing, fires, done, warns,
                    subLog >>

\* ---- run-once: scheduler.go:166-186

\* The tasks the run-once loop submits.
OnceTasks(acc) == { t \in { acc.Tasks[k] : k \in DOMAIN acc.Tasks } : isTaskEnabled(t) }

\* One SubmitTaskBlocking call of the loop, for the next enabled task.
SessSubmitBlocking(a) ==
    LET j == NextFrom(Acc(a).Tasks, sess[a].i, OnceTasks(Acc(a)))
        task == Acc(a).Tasks[j]
    IN  /\ Running
        /\ sess[a].pc = "submit"
        /\ j <= Len(Acc(a).Tasks)
        /\ \E r \in SubmitTaskBlockingCases(ex[a], ctxDone, task, "once") :
             IF r.panic
             THEN /\ proc' = "panic"
                  /\ UNCHANGED << ex, sess >>
             ELSE /\ ex' = [ ex EXCEPT ![a] = r.ex ]
                  /\ sess' = [ sess EXCEPT
                        ![a].i = j + 1,
                        ![a].taskErrors =
                            IF r.ok THEN @
                            ELSE Append(@, Err("failed to submit task", task.Name)) ]
                  /\ UNCHANGED proc
        /\ UNCHANGED << applied, ret, logVars, cfg, mainRet, mode, ctxDone, mainPc, mainIdx,
                        hasAnyScheduled, allErrs, cronRunning, entries, firing,
                        fires, done, warns, subLog >>

\* The loop is over: the task errors join allErrs, the function returns nil,
\* and the deferred exec.Stop() runs.
SessOnceReturn(a) ==
    /\ Running
    /\ sess[a].pc = "submit"
    /\ NextFrom(Acc(a).Tasks, sess[a].i, OnceTasks(Acc(a))) > Len(Acc(a).Tasks)
    /\ allErrs' = allErrs \o sess[a].taskErrors
    /\ sess' = [ sess EXCEPT ![a].pc = "stopCancel", ![a].ret = NoErr ]
    /\ UNCHANGED << applied, ret, logVars, cfg, mainRet, mode, ctxDone, proc, mainPc, mainIdx, hasAnyScheduled,
                    ex, cronRunning, entries, firing, fires, done, warns,
                    subLog >>

\* ---- daemon: scheduler.go:275-318

\* scheduler.go:215-227: the flags RunTasks computes before it starts the
\* session, and the tasks each loop of the session acts on.
RunOnStartTasksAnyFlag(acc) ==
    { t \in { acc.Tasks[k] : k \in DOMAIN acc.Tasks } : isTaskEnabled(t) }
RunOnStartTasks(acc) ==
    { t \in { acc.Tasks[k] : k \in DOMAIN acc.Tasks } : isTaskEnabled(t) /\ t.RunOnStart }
ScheduledTasks(acc) ==
    { t \in { acc.Tasks[k] : k \in DOMAIN acc.Tasks } : isTaskEnabled(t) /\ t.Schedule # "" }
hasImmediateTasks(acc) == RunOnStartTasks(acc) # {}
hasScheduledTasks(acc) == ScheduledTasks(acc) # {}

\* scheduler.go:276-282: one SubmitTask call of the run_on_start loop. The
\* loop is only entered if hasImmediateTasks, and then finds every such task.
SessRunOnStart(a) ==
    LET j == NextFrom(Acc(a).Tasks, sess[a].i, RunOnStartTasks(Acc(a)))
        task == Acc(a).Tasks[j]
        r == SubmitTask(ex[a], task, "run_on_start")
    IN  /\ Running
        /\ sess[a].pc = "runOnStart"
        /\ j <= Len(Acc(a).Tasks)
        /\ ex' = [ ex EXCEPT ![a] = r.ex ]
        /\ warns' = [ warns EXCEPT ![a] = @ \o r.warn ]
        /\ subLog' = [ subLog EXCEPT ![a] = Append(@, [ task |-> task, ok |-> r.ok ]) ]
        /\ sess' = [ sess EXCEPT ![a].i = j + 1 ]
        /\ UNCHANGED << applied, ret, logVars, cfg, mainRet, mode, ctxDone, proc, mainPc, mainIdx,
                        hasAnyScheduled, allErrs, cronRunning, entries, firing,
                        fires, done >>

\* The run_on_start loop is over (or was not entered).
SessRunOnStartDone(a) ==
    /\ Running
    /\ sess[a].pc = "runOnStart"
    /\ NextFrom(Acc(a).Tasks, sess[a].i, RunOnStartTasks(Acc(a))) > Len(Acc(a).Tasks)
    /\ sess' = [ sess EXCEPT ![a].pc = "schedule", ![a].i = 1 ]
    /\ UNCHANGED << applied, ret, logVars, cfg, mainRet, mode, ctxDone, proc, mainPc, mainIdx, hasAnyScheduled,
                    allErrs, ex, cronRunning, entries, firing, fires, done,
                    warns, subLog >>

\* A schedule entry: the closure of scheduler.go:297-305 with the account
\* (its executor, its context) and the task copy it captured.
ScheduleEntryCrossed(a, k) == [ acc |-> NAcc + 1 - a, idx |-> k, task |-> Acc(a).Tasks[k] ]
ScheduleEntry(a, k) == [ acc |-> a, idx |-> k, task |-> Acc(a).Tasks[k] ]

\* scheduler.go:307-312: what the registration loop does with AddTask's
\* result: the next pc of the session and the error it returns.
AfterAddTask(s, j, err) ==
    IF err # NoErr
    THEN [ s EXCEPT !.pc = "stopCancel", !.ret = err ]
    ELSE [ s EXCEPT !.i = j + 1 ]

\* scheduler.go:286-313: one s.AddTask call of the registration loop.
SessAddTask(a) ==
    LET j == NextFrom(Acc(a).Tasks, sess[a].i, ScheduledTasks(Acc(a)))
        task == Acc(a).Tasks[j]
        err == AddTaskErr(task.Schedule)
    IN  /\ Running
        /\ sess[a].pc = "schedule"
        /\ j <= Len(Acc(a).Tasks)
        /\ entries' = IF err = NoErr THEN entries \cup { ScheduleEntry(a, j) }
                      ELSE entries
        /\ sess' = [ sess EXCEPT ![a] = AfterAddTask(@, j, err) ]
        /\ UNCHANGED << applied, ret, logVars, cfg, mainRet, mode, ctxDone, proc, mainPc, mainIdx,
                        hasAnyScheduled, allErrs, ex, cronRunning, firing,
                        fires, done, warns, subLog >>

\* The registration loop is over: the session is at <-ctx.Done().
SessAddTaskDone(a) ==
    /\ Running
    /\ sess[a].pc = "schedule"
    /\ NextFrom(Acc(a).Tasks, sess[a].i, ScheduledTasks(Acc(a))) > Len(Acc(a).Tasks)
    /\ sess' = [ sess EXCEPT ![a].pc = "wait" ]
    /\ UNCHANGED << applied, ret, logVars, cfg, mainRet, mode, ctxDone, proc, mainPc, mainIdx, hasAnyScheduled,
                    allErrs, ex, cronRunning, entries, firing, fires, done,
                    warns, subLog >>

\* scheduler.go:317-318: <-ctx.Done(); return nil; the deferred Stop runs.
SessWait(a) ==
    /\ Running
    /\ sess[a].pc = "wait"
    /\ ctxDone
    /\ sess' = [ sess EXCEPT ![a].pc = "stopCancel", ![a].ret = NoErr ]
    /\ UNCHANGED << applied, ret, logVars, cfg, mainRet, mode, ctxDone, proc, mainPc, mainIdx, hasAnyScheduled,
                    allErrs, ex, cronRunning, entries, firing, fires, done,
                    warns, subLog >>

\* ------------------------------------------------------------------- main

\* errors.Join (scheduler.go:193): nil (no error at all) is << >>.
errorsJoin(errs) == errs

\* errors.Is(err, context.Canceled) on a joined error: some joined error is it.
IsCanceled(joined) == \E k \in DOMAIN joined : joined[k] = ContextCanceled

\* main.go:90-101 and 103-110: the exit code for what the call returned.
ExitFor(joined) ==
    IF joined = << >> THEN "exit0"
    ELSE IF IsCanceled(joined) THEN "exit0"
    ELSE "exit1"

\* What the client factory (client.NewClient) may return.
FactoryOutcomes == { NoErr, Err("client", "failed to create client") }

\* scheduler.go:97-143 and 146: one round of runTasksOnce's loop, up to the
\* call of client.Run.
MainOnceAccount ==
    LET a == mainIdx
        acc == Acc(a)
        enabledTaskCount == Cardinality({ k \in DOMAIN acc.Tasks : isTaskEnabled(acc.Tasks[k]) })
        app == resolveAppConfig(cfg, acc)
    IN  /\ Running
        /\ mode = "once"
        /\ mainPc = "loop"
        /\ mainIdx <= NAcc
        /\ IF ctxDone
           THEN /\ mainRet' = << ContextCanceled >>
                /\ proc' = ExitFor(<< ContextCanceled >>)
                /\ mainPc' = "returned"
                /\ UNCHANGED << mainIdx, allErrs, sess >>
           ELSE IF enabledTaskCount = 0
           THEN /\ mainIdx' = mainIdx + 1
                /\ UNCHANGED << mainRet, proc, mainPc, allErrs, sess >>
           ELSE IF app[3] # NoErr
           THEN /\ allErrs' = Append(allErrs, app[3])
                /\ mainIdx' = mainIdx + 1
                /\ UNCHANGED << mainRet, proc, mainPc, sess >>
           ELSE \E ferr \in FactoryOutcomes :
                  IF ferr # NoErr
                  THEN /\ allErrs' = Append(allErrs, ferr)
                       /\ mainIdx' = mainIdx + 1
                       /\ UNCHANGED << mainRet, proc, mainPc, sess >>
                  ELSE /\ sess' = [ sess EXCEPT ![a].pc = "auth",
                                                   ![a].client = AccountClient(cfg, acc) ]
                       /\ mainPc' = "inRun"
                       /\ UNCHANGED << mainRet, proc, mainIdx, allErrs >>
        /\ UNCHANGED << applied, ret, logVars, cfg, mode, ctxDone, hasAnyScheduled, ex, cronRunning,
                        entries, firing, fires, done, warns, subLog >>

\* scheduler.go:187-190: client.Run returned what the session function
\* returned.
MainOnceRunReturn ==
    /\ Running
    /\ mode = "once"
    /\ mainPc = "inRun"
    /\ sess[mainIdx].pc = "ended"
    /\ allErrs' = IF sess[mainIdx].ret # NoErr THEN Append(allErrs, sess[mainIdx].ret)
                  ELSE allErrs
    /\ mainIdx' = mainIdx + 1
    /\ mainPc' = "loop"
    /\ UNCHANGED << applied, ret, logVars, cfg, mode, ctxDone, proc, hasAnyScheduled, mainRet, sess, ex,
                    cronRunning, entries, firing, fires, done, warns, subLog >>

\* scheduler.go:193 and main.go:91-100: the loop is over, the process exits.
MainOnceReturn ==
    /\ Running
    /\ mode = "once"
    /\ mainPc = "loop"
    /\ mainIdx > NAcc
    /\ mainRet' = errorsJoin(allErrs)
    /\ proc' = ExitFor(errorsJoin(allErrs))
    /\ mainPc' = "returned"
    /\ UNCHANGED << applied, ret, logVars, cfg, mode, ctxDone, mainIdx, hasAnyScheduled, allErrs, sess,
                    ex, cronRunning, entries, firing, fires, done, warns,
                    subLog >>

\* scheduler.go:203-254: one round of RunTasks' loop: the account is passed
\* over, or its session starts in a goroutine of its own.
MainDaemonAccount ==
    LET a == mainIdx
        acc == Acc(a)
        app == resolveAppConfig(cfg, acc)
    IN  /\ Running
        /\ mode = "daemon"
        /\ mainPc = "loop"
        /\ mainIdx <= NAcc
        /\ mainIdx' = mainIdx + 1
        /\ IF ~hasImmediateTasks(acc) /\ ~hasScheduledTasks(acc)
           THEN UNCHANGED << hasAnyScheduled, sess >>
           ELSE IF app[3] # NoErr
           THEN UNCHANGED << hasAnyScheduled, sess >>
           ELSE \E ferr \in FactoryOutcomes :
                  IF ferr # NoErr
                  THEN UNCHANGED << hasAnyScheduled, sess >>
                  ELSE /\ hasAnyScheduled' = (hasAnyScheduled \/ hasScheduledTasks(acc))
                       /\ sess' = [ sess EXCEPT ![a].pc = "auth",
                                                 ![a].client = AccountClient(cfg, acc) ]
        /\ UNCHANGED << applied, ret, logVars, cfg, mode, ctxDone, proc, mainPc, allErrs, mainRet, ex,
                        cronRunning, entries, firing, fires, done, warns,
                        subLog >>

\* scheduler.go:322-329: the scheduler starts if some account has a scheduled
\* task; RunTasks returns nil and main waits for the signal (main.go:112).
MainDaemonStart ==
    /\ Running
    /\ mode = "daemon"
    /\ mainPc = "loop"
    /\ mainIdx > NAcc
    /\ cronRunning' = hasAnyScheduled
    /\ mainPc' = "wait"
    /\ UNCHANGED << applied, ret, logVars, cfg, mode, ctxDone, proc, mainIdx, hasAnyScheduled, allErrs,
                    mainRet, sess, ex, entries, firing, fires, done, warns,
                    subLog >>

\* main.go:112-114: the signal arrived, main returns, the process is gone.
MainDaemonExit ==
    /\ Running
    /\ mode = "daemon"
    /\ mainPc = "wait"
    /\ ctxDone
    /\ proc' = "exit0"
    /\ mainPc' = "returned"
    /\ UNCHANGED << applied, ret, logVars, cfg, mode, ctxDone, mainIdx, hasAnyScheduled, allErrs,
                    mainRet, sess, ex, cronRunning, entries, firing, fires,
                    done, warns, subLog >>

\* main.go:42: SIGINT or SIGTERM cancels the process-wide context.
Cancel ==
    /\ Running
    /\ ~ctxDone
    /\ ctxDone' = TRUE
    /\ UNCHANGED << applied, ret, logVars, cfg, mode, proc, mainPc, mainIdx, hasAnyScheduled, allErrs,
                    mainRet, sess, ex, cronRunning, entries, firing, fires,
                    done, warns, subLog >>

\* ------------------------------------------------------------- cron firings

\* scheduler.go:297-302: the entry's time has come and its closure found the
\* context live (with the context cancelled the closure returns at once).
\* cron runs each job in a goroutine of its own, so the SubmitTask call that
\* follows is a separate step.
CronFire(e) ==
    /\ Running
    /\ cronRunning
    /\ e \in entries
    /\ e \notin firing
    /\ fires < MaxFires
    /\ ~ctxDone
    /\ firing' = firing \cup { e }
    /\ fires' = fires + 1
    /\ UNCHANGED << applied, ret, logVars, cfg, mode, ctxDone, proc, mainPc, mainIdx, hasAnyScheduled,
                    allErrs, mainRet, sess, ex, cronRunning, entries, done,
                    warns, subLog >>

\* scheduler.go:304: exec.SubmitTask(t, accLog, "scheduled").
FireSubmit(e) ==
    LET a == e.acc
        r == SubmitTask(ex[a], e.task, "scheduled")
    IN  /\ Running
        /\ e \in firing
        /\ firing' = firing \ { e }
        /\ IF r.panic
           THEN /\ proc' = "panic"
                /\ UNCHANGED << ex, warns, subLog >>
           ELSE /\ ex' = [ ex EXCEPT ![a] = r.ex ]
                /\ warns' = [ warns EXCEPT ![a] = @ \o r.warn ]
                /\ subLog' = [ subLog EXCEPT ![a] = Append(@, [ task |-> e.task, ok |-> r.ok ]) ]
                /\ UNCHANGED proc
        /\ UNCHANGED << applied, ret, logVars, cfg, mode, ctxDone, mainPc, mainIdx, hasAnyScheduled,
                        allErrs, mainRet, sess, cronRunning, entries, fires,
                        done >>

\* ------------------------------------------------------------ specification

Next ==
    \/ Cancel
    \/ MainOnceAccount
    \/ MainOnceRunReturn
    \/ MainOnceReturn
    \/ MainDaemonAccount
    \/ MainDaemonStart
    \/ MainDaemonExit
    \/ \E a \in Accs : SessAuth(a)
    \/ \E a \in Accs : SessNewExecutor(a)
    \/ \E a \in Accs : SessSubmitBlocking(a)
    \/ \E a \in Accs : SessOnceReturn(a)
    \/ \E a \in Accs : SessRunOnStart(a)
    \/ \E a \in Accs : SessRunOnStartDone(a)
    \/ \E a \in Accs : SessAddTask(a)
    \/ \E a \in Accs : SessAddTaskDone(a)
    \/ \E a \in Accs : SessWait(a)
    \/ \E a \in Accs : StopCancel(a)
    \/ \E a \in Accs : StopClose(a)
    \/ \E a \in Accs : StopWait(a)
    \/ \E a \in Accs : \E w \in Workers(a) : WorkerExit(a, w)
    \/ \E a \in Accs : \E w \in Workers(a) : WorkerDequeue(a, w)
    \/ \E a \in Accs : \E w \in Workers(a) : WorkerFinish(a, w)
    \/ \E e \in entries : CronFire(e)
    \/ \E e \in firing : FireSubmit(e)

Spec == Init /\ [][Next]_vars

\* The program under the scheduling the Go runtime gives: every goroutine
\* that can take a step eventually takes one, and every Messenger call
\* returns. The signal (Cancel) and the cron clock (CronFire) are the
\* environment's: they may or may not come.
FairSpec ==
    /\ Init
    /\ [][Next]_vars
    /\ WF_vars(MainOnceAccount \/ MainOnceRunReturn \/ MainOnceReturn)
    /\ WF_vars(MainDaemonAccount \/ MainDaemonStart \/ MainDaemonExit)
    /\ \A a \in 1 .. 2 :
         /\ WF_vars(a \in Accs /\ (SessAuth(a) \/ SessNewExecutor(a)))
         /\ WF_vars(a \in Accs /\ (SessSubmitBlocking(a) \/ SessOnceReturn(a)))
         /\ WF_vars(a \in Accs /\ (SessRunOnStart(a) \/ SessRunOnStartDone(a)))
         /\ WF_vars(a \in Accs /\ (SessAddTask(a) \/ SessAddTaskDone(a) \/ SessWait(a)))
         /\ WF_vars(a \in Accs /\ (StopCancel(a) \/ StopClose(a) \/ StopWait(a)))
         /\ WF_vars(a \in Accs /\ \E w \in Workers(a) : WorkerDequeue(a, w))
         /\ WF_vars(a \in Accs /\ \E w \in Workers(a) : WorkerFinish(a, w))
         /\ WF_vars(a \in Accs /\ \E w \in Workers(a) : WorkerExit(a, w))
    /\ WF_vars(\E e \in firing : FireSubmit(e))

\* ------------------------------------------- the functions on their own

\* The configuration functions, resolveReplyConfig and NewTaskExecutor
\* applied to arguments of their own, no program running around them.
PureInit ==
    /\ applied \in Calls
    /\ ret = NotReturned
    /\ cfg = ZeroConfig
    /\ mode = "once"
    /\ ctxDone = FALSE
    /\ proc = "running"
    /\ mainPc = "loop"
    /\ mainIdx = 1
    /\ hasAnyScheduled = FALSE
    /\ allErrs = << >>
    /\ mainRet = << >>
    /\ sess = << >>
    /\ ex = << >>
    /\ cronRunning = FALSE
    /\ entries = {}
    /\ firing = {}
    /\ fires = 0
    /\ done = {}
    /\ warns = << >>
    /\ subLog = << >>
    /\ NoLogging

progVars == << cfg, mode, ctxDone, proc, mainPc, mainIdx, hasAnyScheduled,
               allErrs, mainRet, sess, ex, cronRunning, entries, firing, fires,
               done, warns, subLog >>

CallMergeTask ==
    /\ applied.fn = "mergeTask"
    /\ ~ret.returned
    /\ ret' = Returned(mergeTask(applied.baseTask, applied.overrideTask))
    /\ UNCHANGED << applied, logVars, progVars >>

CallMergeTasks ==
    /\ applied.fn = "mergeTasks"
    /\ ~ret.returned
    /\ ret' = Returned(mergeTasks(applied.baseTasks, applied.overrideTasks))
    /\ UNCHANGED << applied, logVars, progVars >>

CallMergeAccount ==
    /\ applied.fn = "mergeAccount"
    /\ ~ret.returned
    /\ ret' = Returned(mergeAccount(applied.baseAccount, applied.overrideAccount))
    /\ UNCHANGED << applied, logVars, progVars >>

CallMergeAccounts ==
    /\ applied.fn = "mergeAccounts"
    /\ ~ret.returned
    /\ ret' = Returned(mergeAccounts(applied.baseAccounts, applied.overrideAccounts))
    /\ UNCHANGED << applied, logVars, progVars >>

CallMergeConfig ==
    /\ applied.fn = "MergeConfig"
    /\ ~ret.returned
    /\ ret' = Returned(MergeConfig(applied.base, applied.override))
    /\ UNCHANGED << applied, logVars, progVars >>

\* MergeConfig called on the memory that holds its arguments.
CallMergeConfigMem ==
    /\ applied.fn = "MergeConfigMem"
    /\ ~ret.returned
    /\ ret' = Returned(MergeConfigMem(applied.mem, applied.basePtr, applied.overridePtr))
    /\ UNCHANGED << applied, logVars, progVars >>

CallResolveReplyConfig ==
    /\ applied.fn = "resolveReplyConfig"
    /\ ~ret.returned
    /\ ret' = Returned(resolveReplyConfig(applied.cfg, applied.acc, applied.task))
    /\ UNCHANGED << applied, logVars, progVars >>

\* NewTaskExecutor with the account's sizes as they are ("direct"), or as
\* the session function passes them (scheduler.go:152-162, 261-271).
CallNewTaskExecutor ==
    /\ applied.fn = "NewTaskExecutor"
    /\ ~ret.returned
    /\ ret' = Returned(
                IF applied.via = "session"
                THEN NewTaskExecutor(SessionWorkerCount(applied.acc),
                                     SessionQueueSize(applied.acc))
                ELSE NewTaskExecutor(applied.acc.WorkerCount, applied.acc.TaskQueueSize))
    /\ UNCHANGED << applied, logVars, progVars >>

PureNext ==
    \/ CallMergeTask
    \/ CallMergeTasks
    \/ CallMergeAccount
    \/ CallMergeAccounts
    \/ CallMergeConfig
    \/ CallMergeConfigMem
    \/ CallResolveReplyConfig
    \/ CallNewTaskExecutor

PureSpec == PureInit /\ [][PureNext]_vars

\* ------------------------------------------ executions and their logs

\* Names are strings of characters here, so that sanitizeFilename acts on them.
\* logger.go:171-188 sanitizeFilename: ten characters become "_", "@" and "+"
\* are dropped.
Underscored == { "/", "\\", ":", "*", "?", "\"", "<", ">", "|", " " }
Dropped == { "@", "+" }
RECURSIVE sanitizeFilename(_)
sanitizeFilename(name) ==
    IF name = << >> THEN << >>
    ELSE LET c == Head(name)
             rest == sanitizeFilename(Tail(name))
         IN  IF c \in Underscored THEN << "_" >> \o rest
             ELSE IF c \in Dropped THEN rest
             ELSE << c >> \o rest

\* Time is counted in ticks; time.Now().Format("20060102_150405")
\* (logger.go:129) keeps the second and drops the rest.
TicksPerSecond == 2
MaxNow == 2
SecondNames == << "0", "1", "2", "3", "4", "5" >>
timestamp(t) == << SecondNames[(t \div TicksPerSecond) + 1] >>

\* logger.go:129-135, the file CreateTaskLogger opens at time t. Every
\* executor is given the same logDir, so the directory is left out.
TaskLogFile(accountName, taskName, triggerType, t) ==
    sanitizeFilename(accountName) \o << "_" >> \o sanitizeFilename(taskName)
        \o << "_" >> \o << triggerType >> \o << "_" >> \o timestamp(t)
        \o << ".log" >>

\* zerolog levels, and the global level's filter (logger.go:100).
LogLevels == { "debug", "info" }
Lvl(l) == CASE l = "debug" -> 0 [] l = "info" -> 1 [] l = "warn" -> 2
            [] l = "error" -> 3
Passes(l) == Lvl(l) >= Lvl(logLevel)

\* A structured event of execution i, and a log after an event is sent to it.
Event(i, l, msg, err) == [ exec |-> i, level |-> l, msg |-> msg, err |-> err ]
Emit(log, ev) == IF Passes(ev.level) THEN Append(log, ev) ELSE log

\* executor.go:132-153, 157-193: the messages by trigger type.
StartMsg(triggerType) ==
    IF triggerType = "run_on_start" THEN "Executing startup task..."
    ELSE IF triggerType = "scheduled" THEN "Executing scheduled task..."
    ELSE "Executing task..."
FailMsg(triggerType) ==
    IF triggerType = "run_on_start" THEN "Startup task failed"
    ELSE IF triggerType = "scheduled" THEN "Scheduled task failed"
    ELSE "Task failed"

\* A file is written through a handle that keeps its own offset (O_WRONLY,
\* no O_APPEND; logger.go:137), counted in events: a write lands at the
\* handle's offset, over what is there, past a gap if the file is shorter.
Hole == Event(0, "none", "", FALSE)
WriteAt(content, off, ev) ==
    IF off < Len(content) THEN [ content EXCEPT ![off + 1] = ev ]
    ELSE content \o [ k \in 1 .. (off - Len(content)) |-> Hole ] \o << ev >>

\* The requests followed: accounts, tasks (one per method) and trigger types.
LogAccounts == { << "u" >>, << "v" >> }
LogTasks ==
    { [ Name |-> << "t" >>, Target |-> << "@", "b" >>, Method |-> "message" ],
      [ Name |-> << >>, Target |-> << "@", "t" >>, Method |-> "button" ],
      [ Name |-> << "d", "/", "y" >>, Target |-> << "@", "b" >>, Method |-> "poll" ] }
TriggerTypes == { "run_on_start", "scheduled", "once" }
LogRequest(a, t, tt) ==
    [ account |-> a, Name |-> t.Name, Target |-> t.Target, Method |-> t.Method,
      TriggerType |-> tt ]
MethodTrigger ==
    { << "message", "once" >>, << "button", "run_on_start" >>, << "poll", "scheduled" >> }
FirstRequests ==
    { LogRequest(<< "u" >>, p[1], p[2]) :
        p \in { q \in LogTasks \X TriggerTypes : << q[1].Method, q[2] >> \in MethodTrigger } }
SecondRequests ==
    { LogRequest(a, t, "once") :
        a \in LogAccounts, t \in { x \in LogTasks : x.Method # "poll" } }
NoFile == << >>
Queued(req, w) ==
    [ req |-> req, WorkerID |-> w, pc |-> "queued", file |-> NoFile, off |-> 0,
      wrote |-> << >>, err |-> FALSE, msg |-> "" ]

\* Two requests, the first of account "u" on worker 0, each handed to
\* executeTask by a worker of its account's executor.
LogInit ==
    /\ logNow = 0
    /\ logLevel \in LogLevels
    /\ logRun \in { << Queued(r1, 0), Queued(r2, w) >> :
                      r1 \in FirstRequests, r2 \in SecondRequests, w \in 0 .. 1 }
    /\ taskFiles = << >>
    /\ accountLog = << << >>, << >> >>
    /\ applied = NoCall
    /\ ret = NotReturned
    /\ cfg = ZeroConfig
    /\ mode = "once"
    /\ ctxDone = FALSE
    /\ proc = "running"
    /\ mainPc = "loop"
    /\ mainIdx = 1
    /\ hasAnyScheduled = FALSE
    /\ allErrs = << >>
    /\ mainRet = << >>
    /\ sess = << >>
    /\ ex = << >>
    /\ cronRunning = FALSE
    /\ entries = {}
    /\ firing = {}
    /\ fires = 0
    /\ done = {}
    /\ warns = << >>
    /\ subLog = << >>

\* One logging statement of execution i through its task logger: into its
\* task file at the handle's offset, or, with no task file (executor.go:119),
\* into the account log; the execution goes on at pc.
TaskLogWrite(i, ev, pc) ==
    LET x == logRun[i]
    IN  IF x.file # NoFile
        THEN /\ taskFiles' = IF Passes(ev.level)
                             THEN [ taskFiles EXCEPT ![x.file] = WriteAt(@, x.off, ev) ]
                             ELSE taskFiles
             /\ logRun' = [ logRun EXCEPT ![i] =
                              [ x EXCEPT !.pc = pc, !.wrote = Emit(@, ev),
                                         !.off = Len(Emit(x.wrote, ev)), !.msg = ev.msg ] ]
             /\ accountLog' = accountLog
        ELSE /\ taskFiles' = taskFiles
             /\ logRun' = [ logRun EXCEPT ![i] = [ x EXCEPT !.pc = pc, !.msg = ev.msg ] ]
             /\ accountLog' = [ accountLog EXCEPT ![i] = Emit(@, ev) ]

\* One logging statement through the account logger (req.Logger, c.log). The
\* log is shared and appended to (logger.go:63); it is kept per execution,
\* in the order the execution's events reached it.
AccountLogWrite(i, ev, pc) ==
    /\ accountLog' = [ accountLog EXCEPT ![i] = Emit(@, ev) ]
    /\ logRun' = [ logRun EXCEPT ![i] = [ @ EXCEPT !.pc = pc ] ]
    /\ taskFiles' = taskFiles

\* executor.go:110-122: executeTask calls CreateTaskLogger, which reads the
\* clock (never earlier than the last reading) and opens the file with
\* O_TRUNC, or fails, and then the executor's logger reports it.
ExecuteTaskCreateLogger(i, created, t) ==
    LET x == logRun[i]
        taskName == IF x.req.Name = << >> THEN x.req.Target ELSE x.req.Name
        path == TaskLogFile(x.req.account, taskName, x.req.TriggerType, t)
    IN  /\ x.pc = "queued"
        /\ t >= logNow
        /\ \A j \in DOMAIN logRun :
             (j # i /\ logRun[j].req.account = x.req.account
                    /\ logRun[j].WorkerID = x.WorkerID)
                 => logRun[j].pc \in { "queued", "done" }
        /\ logNow' = t
        /\ IF created
           THEN /\ taskFiles' = [ p \in DOMAIN taskFiles \cup { path } |->
                                    IF p = path THEN << >> ELSE taskFiles[p] ]
                /\ logRun' = [ logRun EXCEPT ![i] =
                                 [ x EXCEPT !.pc = "start", !.file = path ] ]
                /\ accountLog' = accountLog
           ELSE AccountLogWrite(i,
                   Event(i, "error", "Failed to create task log file, using main log", TRUE),
                   "start")
        /\ UNCHANGED << logLevel, applied, ret, progVars >>

\* executor.go:132-153: the start event, to the task logger at Info ...
ExecuteTaskStart(i) ==
    /\ logRun[i].pc = "start"
    /\ TaskLogWrite(i, Event(i, "info", StartMsg(logRun[i].req.TriggerType), FALSE),
                    "startAccount")
    /\ UNCHANGED << logNow, logLevel, applied, ret, progVars >>

\* ... and to the account logger at Debug.
ExecuteTaskStartAccount(i) ==
    /\ logRun[i].pc = "startAccount"
    /\ AccountLogWrite(i, Event(i, "debug", StartMsg(logRun[i].req.TriggerType), FALSE),
                       "call")
    /\ UNCHANGED << logNow, logLevel, applied, ret, progVars >>

\* executor.go:209-218 executeTaskWithLogger: an unknown method returns its
\* error at once; README.md:1044-1050, 1214-1220: the client's first event,
\* to the task logger ...
BeginMsg(method) ==
    IF method = "message" THEN "Sending message..." ELSE "Clicking button..."
ClientBegin(i) ==
    LET x == logRun[i]
    IN  /\ x.pc = "call"
        /\ IF x.req.Method \in { "message", "button" }
           THEN TaskLogWrite(i, Event(i, "info", BeginMsg(x.req.Method), FALSE), "beginMain")
           ELSE /\ logRun' = [ logRun EXCEPT ![i] = [ x EXCEPT !.pc = "end", !.err = TRUE ] ]
                /\ UNCHANGED << taskFiles, accountLog >>
        /\ UNCHANGED << logNow, logLevel, applied, ret, progVars >>

\* ... and to the client's own logger, the account's.
ClientBeginMain(i) ==
    /\ logRun[i].pc = "beginMain"
    /\ AccountLogWrite(i, Event(i, "info", BeginMsg(logRun[i].req.Method), FALSE), "rpc")
    /\ UNCHANGED << logNow, logLevel, applied, ret, progVars >>

\* README.md:1050-1067, 1220-1275: resolving the peer, sending the message or
\* reading the buttons and clicking fails, and the call returns the error;
\* or the message is sent and the task logger notes the wait; or the button
\* is clicked and the task logger notes it.
ClientRpc(i, failed) ==
    LET x == logRun[i]
    IN  /\ x.pc = "rpc"
        /\ IF failed
           THEN /\ logRun' = [ logRun EXCEPT ![i] = [ x EXCEPT !.pc = "end", !.err = TRUE ] ]
                /\ UNCHANGED << taskFiles, accountLog >>
           ELSE IF x.req.Method = "message"
           THEN TaskLogWrite(i, Event(i, "info", "Waiting for reply...", FALSE), "history")
           ELSE TaskLogWrite(i, Event(i, "info", "Button click completed", FALSE), "doneMain")
        /\ UNCHANGED << logNow, logLevel, applied, ret, progVars >>

\* README.md:1068-1131: reading the history fails, the task logger warns and
\* the call returns nil; or the reply, or its absence, is noted in the task
\* log.
HistoryOutcomes == { "failed", "reply", "no reply" }
ClientHistory(i, outcome) ==
    /\ logRun[i].pc = "history"
    /\ IF outcome = "failed"
       THEN TaskLogWrite(i, Event(i, "warn", "Failed to get message history", TRUE), "end")
       ELSE IF outcome = "reply"
       THEN TaskLogWrite(i, Event(i, "info", "Message completed", FALSE), "doneMain")
       ELSE TaskLogWrite(i, Event(i, "info", "Message completed (no reply)", FALSE), "doneMain")
    /\ UNCHANGED << logNow, logLevel, applied, ret, progVars >>

\* README.md:1121-1137, 1276-1287: the same closing event to the client's
\* own logger.
ClientDoneMain(i) ==
    /\ logRun[i].pc = "doneMain"
    /\ AccountLogWrite(i, Event(i, "info", logRun[i].msg, FALSE), "end")
    /\ UNCHANGED << logNow, logLevel, applied, ret, progVars >>

\* executor.go:156-193: the outcome, to the task logger ...
EndEvent(i) ==
    IF logRun[i].err THEN Event(i, "error", FailMsg(logRun[i].req.TriggerType), TRUE)
    ELSE Event(i, "info", "Task completed successfully", FALSE)
ExecuteTaskEnd(i) ==
    /\ logRun[i].pc = "end"
    /\ TaskLogWrite(i, EndEvent(i), "endAccount")
    /\ UNCHANGED << logNow, logLevel, applied, ret, progVars >>

\* ... and to the account logger; executeTask returns and the deferred
\* Close runs.
ExecuteTaskEndAccount(i) ==
    /\ logRun[i].pc = "endAccount"
    /\ AccountLogWrite(i, EndEvent(i), "done")
    /\ UNCHANGED << logNow, logLevel, applied, ret, progVars >>

LogNext ==
    \/ \E i \in DOMAIN logRun, created \in BOOLEAN, t \in 0 .. MaxNow :
         ExecuteTaskCreateLogger(i, created, t)
    \/ \E i \in DOMAIN logRun : ExecuteTaskStart(i)
    \/ \E i \in DOMAIN logRun : ExecuteTaskStartAccount(i)
    \/ \E i \in DOMAIN logRun : ClientBegin(i)
    \/ \E i \in DOMAIN logRun : ClientBeginMain(i)
    \/ \E i \in DOMAIN logRun, failed \in BOOLEAN : ClientRpc(i, failed)
    \/ \E i \in DOMAIN logRun, outcome \in HistoryOutcomes : ClientHistory(i, outcome)
    \/ \E i \in DOMAIN logRun : ClientDoneMain(i)
    \/ \E i \in DOMAIN logRun : ExecuteTaskEnd(i)
    \/ \E i \in DOMAIN logRun : ExecuteTaskEndAccount(i)

LogSpec == LogInit /\ [][LogNext]_vars

\* ------------------------------------------------------- what the claims use

StopPcs == { "stopCancel", "stopClose", "stopWait" }

\* Executor.Stop of account a has returned.
StopReturned(a) == ex[a].created /\ sess[a].pc = "ended"

\* The indices of the enabled tasks of account a, by the flag alone.
EnabledIdx(a) == { k \in DOMAIN Acc(a).Tasks : Acc(a).Tasks[k].Enabled # "false" }

\* The requests account a's executor holds or has executed: queued, in a
\* worker's hands, or done.
QueuedReqs(a) == { ex[a].queue[k] : k \in DOMAIN ex[a].queue }
InFlightReqs(a) == { ex[a].wreq[w] : w \in { v \in Workers(a) : ex[a].wpc[v] = "exec" } }
DoneOf(a) == { d \in done : d.acc = a }
Submitted(a) ==
    { << r.Task, r.TriggerType >> : r \in QueuedReqs(a) \cup InFlightReqs(a) }
    \cup { << d.task, d.triggerType >> : d \in DoneOf(a) }

\* The number of requests account a's workers have dequeued.
Dequeued(a) == ex[a].accepted - Len(ex[a].queue)

\* ------------------------------------------------------------------- claims

\* C1. Run-once mode: for an account whose session and authentication
\* succeeded and whose context was never cancelled, once Executor.Stop has
\* returned every enabled task has been executed by a worker and no request
\* is left in the queue.
C1_OnceEveryEnabledTaskExecuted ==
    \A a \in Accs :
        (mode = "once" /\ StopReturned(a) /\ ~ctxDone) =>
            /\ ex[a].queue = << >>
            /\ \A k \in EnabledIdx(a) :
                 \E d \in DoneOf(a) : d.task = Acc(a).Tasks[k]

\* C2. Daemon registration: when AddTask fails for the task at position k,
\* every later enabled task with a well-formed schedule still gets its
\* entry, and while the signal has not come the session stays at its wait
\* with its executor running.
C2_BadScheduleSkipsOnlyThatEntry ==
    \A a \in Accs :
        (mode = "daemon" /\ ex[a].created
           /\ sess[a].pc \in { "wait", "ended" } \cup StopPcs) =>
            /\ \A k \in DOMAIN Acc(a).Tasks :
                 (isTaskEnabled(Acc(a).Tasks[k])
                    /\ Acc(a).Tasks[k].Schedule \in ValidSchedules)
                 => ScheduleEntry(a, k) \in entries
            /\ ~ctxDone => (sess[a].pc = "wait" /\ ~ex[a].cancelled /\ ~ex[a].closed)

\* C3. A task whose enabled flag is false is never submitted to a queue and
\* never bound to a schedule entry, in either mode; a task whose flag is
\* absent is submitted like an enabled one (run-once: every such task has
\* been submitted when the loop ends without a failed submission).
C3_DisabledNeverSubmitted ==
    /\ \A a \in Accs : \A p \in Submitted(a) : p[1].Enabled # "false"
    /\ \A e \in entries \cup firing : e.task.Enabled # "false"
    /\ \A a \in Accs :
         (mode = "once" /\ ex[a].created /\ sess[a].pc \in StopPcs \cup { "ended" }
            /\ sess[a].taskErrors = << >>) =>
             \A k \in DOMAIN Acc(a).Tasks :
                 Acc(a).Tasks[k].Enabled = "nil" =>
                     << Acc(a).Tasks[k], "once" >> \in Submitted(a)

\* A disabled task sits in the configuration of an account whose daemon
\* session has submitted a flagless task and registered an entry for it.
C3_Witness ==
    \E a \in Accs :
        /\ mode = "daemon"
        /\ \E k \in DOMAIN Acc(a).Tasks : Acc(a).Tasks[k].Enabled = "false"
        /\ \E p \in Submitted(a) : p[1].Enabled = "nil" /\ p[2] = "run_on_start"
        /\ \E e \in entries : e.acc = a /\ e.task.Enabled = "nil"
        /\ sess[a].pc = "wait"

\* The last element of a non-empty sequence.
Last(q) == q[Len(q)]

\* Account a's executor took one SubmitTask call in this step.
SubmitTaskStep(a) == Len(subLog'[a]) = Len(subLog[a]) + 1

\* C4. SubmitTask on a queue of capacity C: it returns true iff a slot was
\* free at the call, and then the request is the new tail of the queue; a
\* false return leaves the queue as it was and logs one queue-full warning
\* naming the dropped task; the queue never holds more than C requests; with
\* nothing dequeued, C+1 calls return true C times and then false once, with
\* one warning; and the call never blocks: a session at its run_on_start
\* loop can always take its next step.
C4_SubmitTaskNonBlocking ==
    [][ \A a \in Accs :
          /\ SubmitTaskStep(a) =>
               LET call == Last(subLog'[a])
               IN  /\ call.ok = (Len(ex[a].queue) < ex[a].cap)
                   /\ call.ok =>
                        /\ Len(ex'[a].queue) = Len(ex[a].queue) + 1
                        /\ SubSeq(ex'[a].queue, 1, Len(ex[a].queue)) = ex[a].queue
                        /\ Last(ex'[a].queue).Task = call.task
                        /\ warns'[a] = warns[a]
                   /\ ~call.ok =>
                        /\ ex'[a].queue = ex[a].queue
                        /\ warns'[a] = Append(warns[a], call.task.Name)
          /\ Len(ex'[a].queue) <= ex'[a].cap
          /\ (ex'[a].created /\ Dequeued(a)' = 0 /\ Len(subLog'[a]) = ex'[a].cap + 1) =>
               /\ \A k \in 1 .. ex'[a].cap : subLog'[a][k].ok
               /\ ~Last(subLog'[a]).ok
               /\ warns'[a] = << Last(subLog'[a]).task.Name >>
          /\ (proc' = "running" /\ sess'[a].pc = "runOnStart") =>
               (ENABLED (SessRunOnStart(a) \/ SessRunOnStartDone(a)))'
      ]_vars

\* An executor of capacity C has taken C+1 SubmitTask calls with nothing
\* dequeued: the queue is full and the last call was refused.
C4_Witness ==
    \E a \in Accs :
        /\ ex[a].created
        /\ Dequeued(a) = 0
        /\ Len(subLog[a]) = ex[a].cap + 1
        /\ Len(ex[a].queue) = ex[a].cap
        /\ ~Last(subLog[a]).ok

\* C5. When Executor.Stop has returned, every worker loop of that executor
\* has exited: no execution is in flight, and none starts afterwards.
C5_StopJoinsWorkers ==
    \A a \in Accs :
        StopReturned(a) =>
            \A w \in Workers(a) : ex[a].wpc[w] = "exited"

\* Stop has returned on an executor of two workers that had executed a
\* request.
C5_Witness ==
    \E a \in Accs :
        /\ StopReturned(a)
        /\ ex[a].workerCount >= 2
        /\ DoneOf(a) # {}

\* C6. Executor.Stop drains the queue: when it has returned, every request
\* the executor accepted has been dequeued and executed.
C6_StopDrainsQueue ==
    \A a \in Accs :
        StopReturned(a) =>
            /\ ex[a].queue = << >>
            /\ \A n \in 1 .. ex[a].accepted : \E d \in DoneOf(a) : d.id = n

\* Account a's session took one SubmitTaskBlocking call in this step.
SubmitBlockingStep(a) ==
    sess[a].pc = "submit" /\ sess'[a].pc = "submit" /\ sess'[a].i # sess[a].i

\* The accounts, task positions and request numbers of the configurations.
AccountIds == 1 .. 2
TaskIdx == 1 .. 3
ReqIds == 0 .. 3

\* The task the run-once loop of account a submits next (0: none left).
PendingOnce(a) ==
    IF a \in Accs /\ sess[a].pc = "submit"
          /\ NextFrom(Acc(a).Tasks, sess[a].i, OnceTasks(Acc(a))) <= Len(Acc(a).Tasks)
    THEN NextFrom(Acc(a).Tasks, sess[a].i, OnceTasks(Acc(a)))
    ELSE 0

\* C7. SubmitTaskBlocking never returns false while its context is live; a
\* call that returns true has appended exactly one request, the task's, to
\* the queue; on a full queue the call waits, and with workers that keep
\* dequeuing it returns (true) unless the context is cancelled meanwhile.
C7_BlockingSubmitDelivers ==
    /\ [][ \A a \in Accs :
             SubmitBlockingStep(a) =>
                 LET j == PendingOnce(a)
                     returnedTrue == sess'[a].taskErrors = sess[a].taskErrors
                 IN  /\ ~ctxDone => returnedTrue
                     /\ sess'[a].i = j + 1
                     /\ returnedTrue =>
                          /\ Len(ex[a].queue) < ex[a].cap
                          /\ Len(ex'[a].queue) = Len(ex[a].queue) + 1
                          /\ SubSeq(ex'[a].queue, 1, Len(ex[a].queue)) = ex[a].queue
                          /\ Last(ex'[a].queue).Task = Acc(a).Tasks[j]
                          /\ Last(ex'[a].queue).TriggerType = "once"
         ]_vars
    /\ \A a \in AccountIds : \A j \in TaskIdx :
         (PendingOnce(a) = j) ~> (ctxDone \/ (a \in Accs /\ sess[a].i > j))

\* A blocking submission is waiting on a full queue with the context live,
\* after an earlier one was accepted.
C7_Witness ==
    \E a \in Accs :
        /\ PendingOnce(a) > 0
        /\ Len(ex[a].queue) = ex[a].cap
        /\ ex[a].accepted >= 2
        /\ ~ctxDone

\* C8. SubmitTaskBlocking with the context already cancelled at the call
\* returns false and adds nothing to the queue, free slot or not; and
\* whenever it returns false the queue is unchanged.
C8_BlockingSubmitCancelled ==
    [][ \A a \in Accs :
          SubmitBlockingStep(a) =>
              /\ ctxDone =>
                   /\ Len(sess'[a].taskErrors) = Len(sess[a].taskErrors) + 1
                   /\ ex'[a].queue = ex[a].queue
              /\ Len(sess'[a].taskErrors) = Len(sess[a].taskErrors) + 1 =>
                   ex'[a].queue = ex[a].queue
      ]_vars

\* A worker of account a came back from executeTask in this step.
ExecReturnStep(a, w) == ex[a].wpc[w] = "exec" /\ ex'[a].wpc[w] # "exec"

LiveWorkers(e) == { w \in DOMAIN e.wpc : e.wpc[w] # "exited" }

\* C9. Failure isolation: when an execution fails (Messenger error or
\* unknown method) the error is recorded with the execution and goes no
\* further (no session, no error list, not the process), the worker is back
\* at its select, the queue and the set of live workers are as before; and
\* a request that is still queued after a failure is executed afterwards,
\* as long as the caller's context is not cancelled.
C9_FailureIsolation ==
    /\ [][ \A a \in Accs : \A w \in Workers(a) :
             (ExecReturnStep(a, w) /\ \E d \in done' \ done : d.err # NoErr) =>
                 /\ ex'[a].wpc[w] = "select"
                 /\ ex'[a].queue = ex[a].queue
                 /\ LiveWorkers(ex'[a]) = LiveWorkers(ex[a])
                 /\ \A d \in done' \ done :
                      d.id = ex[a].wreq[w].id /\ d.worker = w /\ d.acc = a
                 /\ << proc, sess, allErrs, mainRet >>' = << proc, sess, allErrs, mainRet >>
         ]_vars
    /\ \A a \in AccountIds : \A n \in ReqIds :
         (/\ a \in Accs
          /\ ex[a].created
          /\ Dequeued(a) = n
          /\ ex[a].queue # << >>
          /\ \E d \in DoneOf(a) : d.err # NoErr)
         ~> (\/ ctxDone
             \/ a \in Accs /\ \E d \in DoneOf(a) : d.id = n + 1)

\* C10. TaskRunner dispatch is a single attempt: a "message" task makes
\* exactly one send-text call with the task's target and payload, a "button"
\* task exactly one click-button call with them, any other method makes no
\* Messenger call and fails with an error naming the method; no execution
\* calls the Messenger more than once.
C10_DispatchSingleAttempt ==
    \A d \in done :
        /\ Len(d.calls) <= 1
        /\ d.task.Method = "message" =>
             d.calls = << [ op |-> "send_text", target |-> d.task.Target,
                            payload |-> d.task.Payload ] >>
        /\ d.task.Method = "button" =>
             d.calls = << [ op |-> "click_button", target |-> d.task.Target,
                            payload |-> d.task.Payload ] >>
        /\ d.task.Method \notin { "message", "button" } =>
             /\ d.calls = << >>
             /\ d.err = [ kind |-> "unknown method", detail |-> d.task.Method ]

\* One account has executed a "message" task, a "button" task and a task of
\* an unknown method.
C10_Witness ==
    \E a \in Accs :
        /\ \E d \in DoneOf(a) : d.task.Method = "message" /\ Len(d.calls) = 1
        /\ \E d \in DoneOf(a) : d.task.Method = "button" /\ Len(d.calls) = 1
        /\ \E d \in DoneOf(a) : d.task.Method = "poll" /\ d.err.kind = "unknown method"

\* The workers of account a that are inside executeTask.
Executing(a) == { w \in Workers(a) : ex[a].wpc[w] = "exec" }

\* The number of SubmitTask calls of account a that returned true.
AcceptedCalls(a) == Cardinality({ k \in DOMAIN subLog[a] : subLog[a][k].ok })

\* The enabled tasks of account a the run-once loop has gone past.
OncePassed(a) ==
    { k \in DOMAIN Acc(a).Tasks : k < sess[a].i /\ isTaskEnabled(Acc(a).Tasks[k]) }

\* C11. At-most-one delivery: every request an executor accepted is in
\* exactly one place (the queue, one worker's hands, or the executions done),
\* no request is held by two workers or executed twice, also with two
\* closures and two workers at work side by side; and an executor has
\* accepted exactly one request per trigger whose submission returned true.
C11_AtMostOneDelivery ==
    \A a \in Accs :
        ex[a].created =>
            /\ \A i, j \in DOMAIN ex[a].queue :
                 i # j => ex[a].queue[i].id # ex[a].queue[j].id
            /\ \A v, w \in Executing(a) :
                 v # w => ex[a].wreq[v].id # ex[a].wreq[w].id
            /\ \A d1, d2 \in DoneOf(a) : d1.id = d2.id => d1 = d2
            /\ \A r \in QueuedReqs(a) :
                 /\ \A w \in Executing(a) : ex[a].wreq[w].id # r.id
                 /\ \A d \in DoneOf(a) : d.id # r.id
            /\ \A w \in Executing(a) : \A d \in DoneOf(a) : d.id # ex[a].wreq[w].id
            /\ Len(ex[a].queue) + Cardinality(Executing(a)) + Cardinality(DoneOf(a))
                 = ex[a].accepted
            /\ mode = "daemon" => ex[a].accepted = AcceptedCalls(a)
            /\ mode = "once" =>
                 ex[a].accepted + Len(sess[a].taskErrors) = Cardinality(OncePassed(a))

\* The closures of two schedule entries have each submitted a request to
\* the queue of a two-worker executor, and the two workers have executed one
\* each.
C11_Witness ==
    \E a \in Accs :
        /\ ex[a].workerCount = 2
        /\ \E d1, d2 \in DoneOf(a) :
             /\ d1.worker # d2.worker
             /\ d1.task # d2.task
             /\ d1.triggerType = "scheduled" /\ d2.triggerType = "scheduled"

\* C12. After Start an executor has exactly workerCount worker loops,
\* workerCount being the account's effective worker count; a worker inside
\* executeTask holds exactly one request and a worker outside it none, so
\* the executions in flight never outnumber the workers.
C12_WorkerCountBound ==
    \A a \in Accs :
        ex[a].created =>
            /\ ex[a].workerCount = SessionWorkerCount(Acc(a))
            /\ Workers(a) = 0 .. (ex[a].workerCount - 1)
            /\ DOMAIN ex[a].wreq = Workers(a)
            /\ \A w \in Workers(a) :
                 (ex[a].wpc[w] = "exec") = (ex[a].wreq[w] # NoReq)
            /\ Cardinality(InFlightReqs(a)) = Cardinality(Executing(a))
            /\ Cardinality(InFlightReqs(a)) <= SessionWorkerCount(Acc(a))

\* Both workers of a two-worker executor are inside executeTask at once.
C12_Witness ==
    \E a \in Accs :
        /\ ex[a].workerCount = 2
        /\ Cardinality(Executing(a)) = 2

\* C13. FIFO: the requests of one executor are numbered in the order it
\* accepted them; the queue holds them in that order, and every request that
\* has been dequeued was accepted before every request still queued.
C13_FifoDequeue ==
    \A a \in Accs :
        ex[a].created =>
            /\ \A k \in DOMAIN ex[a].queue : ex[a].queue[k].id = Dequeued(a) + k
            /\ \A w \in Executing(a) : ex[a].wreq[w].id \in 1 .. Dequeued(a)
            /\ \A d \in DoneOf(a) : d.id \in 1 .. Dequeued(a)

\* A worker of a two-worker executor has taken the first of two queued
\* requests; the second is still in the queue.
C13_Witness ==
    \E a \in Accs :
        /\ ex[a].workerCount = 2
        /\ Dequeued(a) = 1
        /\ Len(ex[a].queue) = 1
        /\ ex[a].queue[1].id = 2

\* A call of fn has returned.
HasReturned(fn) == applied.fn = fn /\ ret.returned

\* C14. Executor construction normalises its sizes: whatever worker_count
\* and task_queue_size an account has, zero and negative included, the
\* executor is constructed, with at least one worker and one queue slot; a
\* non-positive worker count becomes 4, a non-positive queue size 100, and
\* positive values are kept, whether the sizes reach NewTaskExecutor as they
\* are or through the session function.
C14_ExecutorSizes ==
    HasReturned("NewTaskExecutor") =>
        LET wc == applied.acc.WorkerCount
            qs == applied.acc.TaskQueueSize
            e == ret.val
        IN  /\ e.created
            /\ e.workerCount >= 1
            /\ e.cap >= 1
            /\ e.workerCount = IF wc <= 0 THEN 4 ELSE wc
            /\ e.cap = IF qs <= 0 THEN 100 ELSE qs
            /\ e.queue = << >>

\* An executor built directly from worker_count 0 and task_queue_size -1 has
\* 4 workers and 100 slots.
C14_Witness ==
    /\ HasReturned("NewTaskExecutor")
    /\ applied.via = "direct"
    /\ applied.acc.WorkerCount = 0
    /\ applied.acc.TaskQueueSize = -1
    /\ ret.val.workerCount = 4
    /\ ret.val.cap = 100

\* C15. resolveReplyConfig returns, for wait-seconds and for history-limit
\* separately, the task's value if it is positive, else the account's if
\* positive, else the global one if positive, else the default (3 and 10);
\* both results are positive and each depends on the values of its own
\* field only.
C15_ReplyPrecedence ==
    HasReturned("resolveReplyConfig") =>
        LET first(t, a, g, d) ==
                IF t > 0 THEN t ELSE IF a > 0 THEN a ELSE IF g > 0 THEN g ELSE d
        IN  /\ ret.val[1] = first(applied.task.ReplyWaitSeconds,
                                  applied.acc.ReplyWaitSeconds,
                                  applied.cfg.ReplyWaitSeconds, 3)
            /\ ret.val[2] = first(applied.task.ReplyHistoryLimit,
                                  applied.acc.ReplyHistoryLimit,
                                  applied.cfg.ReplyHistoryLimit, 10)
            /\ ret.val[1] > 0
            /\ ret.val[2] > 0

\* The account's wait-seconds wins over the global one where the task has
\* none, while the history limit, set nowhere to a positive value, is the
\* default.
C15_Witness ==
    /\ HasReturned("resolveReplyConfig")
    /\ applied.task.ReplyWaitSeconds = 0
    /\ applied.acc.ReplyWaitSeconds = 2
    /\ applied.cfg.ReplyWaitSeconds = 1
    /\ applied.task.ReplyHistoryLimit = -1
    /\ applied.acc.ReplyHistoryLimit = 0
    /\ applied.cfg.ReplyHistoryLimit = 0
    /\ ret.val = << 2, 10 >>

\* Every account of the list has a non-blank name; some account of one of
\* the two lists has a blank name.
AllNonBlank(accounts) == \A i \in DOMAIN accounts : TrimSpace(accounts[i].Name) # ""
SomeBlank(base, override) == ~AllNonBlank(base) \/ ~AllNonBlank(override)

\* The merge by name of two account lists: the base accounts in base order,
\* each merged with the override account of its trimmed name if there is one
\* (the last one, if several), then the override accounts whose trimmed name no
\* base account has, in override order.
ByName(base, override) ==
    LET match(i) == { j \in DOMAIN override :
                        TrimSpace(override[j].Name) = TrimSpace(base[i].Name) }
        last(S) == CHOOSE j \in S : \A k \in S : k <= j
        new(acc) == \A i \in DOMAIN base : TrimSpace(base[i].Name) # TrimSpace(acc.Name)
    IN  [ i \in 1 .. Len(base) |->
            IF match(i) = {} THEN base[i]
            ELSE mergeAccount(base[i], override[last(match(i))]) ]
        \o SelectSeq(override, new)

\* The merge by position of two account lists of one length.
ByIndex(base, override) ==
    [ i \in 1 .. Len(base) |-> mergeAccount(base[i], override[i]) ]

\* C16. Merging account lists by name: when every account of the base list
\* and of the override list has a non-blank name, the merge succeeds and
\* returns the base accounts in base order, each merged with the override
\* account of the same trimmed name if there is one, followed by the
\* override accounts whose names do not occur in base, in override order.
C16_MergeByName ==
    (/\ HasReturned("mergeAccounts")
     /\ AllNonBlank(applied.baseAccounts)
     /\ AllNonBlank(applied.overrideAccounts))
    => /\ ret.val.err = NoErr
       /\ ret.val.accounts = ByName(applied.baseAccounts, applied.overrideAccounts)

\* C17 as stated. Merging account lists by position: when some account of
\* base or override has a blank name, lists of different lengths give an
\* error and no merged list or configuration, lists of one length give the
\* index-wise merge of that length.
C17_PositionalMergeAsStated ==
    /\ (/\ HasReturned("mergeAccounts")
        /\ SomeBlank(applied.baseAccounts, applied.overrideAccounts))
       => IF Len(applied.baseAccounts) # Len(applied.overrideAccounts)
          THEN ret.val.err # NoErr /\ ret.val.accounts = << >>
          ELSE /\ ret.val.err = NoErr
               /\ ret.val.accounts = ByIndex(applied.baseAccounts, applied.overrideAccounts)
    /\ (/\ HasReturned("MergeConfig")
        /\ applied.base # NilConfig
        /\ applied.override # NilConfig
        /\ SomeBlank(applied.base.Accounts, applied.override.Accounts))
       => IF Len(applied.base.Accounts) # Len(applied.override.Accounts)
          THEN ret.val.err # NoErr /\ ret.val.cfg = NilConfig
          ELSE /\ ret.val.err = NoErr
               /\ ret.val.cfg.Accounts =
                    ByIndex(applied.base.Accounts, applied.override.Accounts)

\* C17. Merging account lists by position, the override list not being
\* empty: when some account of base or override has a blank name, lists of
\* different lengths give an error and no merged list or configuration,
\* lists of one length give the index-wise merge of that length. An empty
\* override list gives the base list back, without an error, whatever the
\* names and the lengths.
C17_PositionalMerge ==
    /\ (/\ HasReturned("mergeAccounts")
        /\ Len(applied.overrideAccounts) > 0
        /\ SomeBlank(applied.baseAccounts, applied.overrideAccounts))
       => IF Len(applied.baseAccounts) # Len(applied.overrideAccounts)
          THEN ret.val.err # NoErr /\ ret.val.accounts = << >>
          ELSE /\ ret.val.err = NoErr
               /\ Len(ret.val.accounts) = Len(applied.baseAccounts)
               /\ ret.val.accounts = ByIndex(applied.baseAccounts, applied.overrideAccounts)
    /\ (HasReturned("mergeAccounts") /\ Len(applied.overrideAccounts) = 0)
       => ret.val.err = NoErr /\ ret.val.accounts = applied.baseAccounts
    /\ (/\ HasReturned("MergeConfig")
        /\ applied.base # NilConfig
        /\ applied.override # NilConfig
        /\ Len(applied.override.Accounts) > 0
        /\ SomeBlank(applied.base.Accounts, applied.override.Accounts))
       => IF Len(applied.base.Accounts) # Len(applied.override.Accounts)
          THEN ret.val.err # NoErr /\ ret.val.cfg = NilConfig
          ELSE /\ ret.val.err = NoErr
               /\ ret.val.cfg.Accounts =
                    ByIndex(applied.base.Accounts, applied.override.Accounts)
    /\ (/\ HasReturned("MergeConfig")
        /\ applied.base # NilConfig
        /\ applied.override # NilConfig
        /\ Len(applied.override.Accounts) = 0)
       => ret.val.err = NoErr /\ ret.val.cfg.Accounts = applied.base.Accounts

\* MergeConfig met an unnamed override account and two base accounts: it
\* returned the length-mismatch error and no configuration.
C17_Witness ==
    /\ HasReturned("MergeConfig")
    /\ applied.base # NilConfig
    /\ applied.override # NilConfig
    /\ Len(applied.base.Accounts) = 2
    /\ Len(applied.override.Accounts) = 1
    /\ SomeBlank(applied.base.Accounts, applied.override.Accounts)
    /\ ret.val.cfg = NilConfig
    /\ ret.val.err = Err("accounts length mismatch", "base=2 override=1")

\* The sparse override of one scalar field: the override's value unless it
\* is the empty one.
Sparse(base, override, field, empty) ==
    IF override[field] # empty THEN override[field] ELSE base[field]

\* C18. Sparse-override merge of scalar fields: every scalar field of a
\* merged task, account or global configuration (task name, worker_count,
\* task_queue_size, reply_wait_seconds and reply_history_limit included) has
\* the override's value if that is non-empty/non-zero and the base's value
\* otherwise.
C18_SparseScalarMerge ==
    /\ HasReturned("mergeTask") =>
         LET b == applied.baseTask
             o == applied.overrideTask
         IN  /\ \A f \in { "Name", "Target", "Method", "Payload", "Schedule" } :
                  ret.val[f] = Sparse(b, o, f, "")
             /\ ret.val.Enabled = Sparse(b, o, "Enabled", "nil")
             /\ ret.val.RunOnStart = Sparse(b, o, "RunOnStart", FALSE)
             /\ \A f \in { "ReplyWaitSeconds", "ReplyHistoryLimit" } :
                  ret.val[f] = Sparse(b, o, f, 0)
    /\ HasReturned("mergeAccount") =>
         LET b == applied.baseAccount
             o == applied.overrideAccount
         IN  /\ \A f \in { "Name", "Phone", "Password", "AppHash" } :
                  ret.val[f] = Sparse(b, o, f, "")
             /\ \A f \in { "AppID", "WorkerCount", "TaskQueueSize",
                           "ReplyWaitSeconds", "ReplyHistoryLimit" } :
                  ret.val[f] = Sparse(b, o, f, 0)
    /\ (HasReturned("MergeConfig") /\ applied.base # NilConfig
          /\ applied.override # NilConfig /\ ret.val.err = NoErr) =>
         LET b == applied.base
             o == applied.override
         IN  /\ \A f \in { "Proxy", "AppHash", "Language" } :
                  ret.val.cfg[f] = Sparse(b, o, f, "")
             /\ \A f \in { "AppID", "ReplyWaitSeconds", "ReplyHistoryLimit" } :
                  ret.val.cfg[f] = Sparse(b, o, f, 0)
             /\ \A f \in { "Dir", "Level", "Format" } :
                  ret.val.cfg.Log[f] = Sparse(b.Log, o.Log, f, "")

\* C19. Task lists are merged by position: the merged list is as long as
\* the longer of the two; position i is the merge of base[i] and override[i]
\* where both exist and the entry of the side that has position i otherwise;
\* an empty override task list leaves the base task list as it is, in
\* mergeTasks and in the account merge that calls it.
C19_TaskListsPositional ==
    /\ HasReturned("mergeTasks") =>
         LET b == applied.baseTasks
             o == applied.overrideTasks
             longer == IF Len(b) >= Len(o) THEN Len(b) ELSE Len(o)
         IN  /\ Len(ret.val) = longer
             /\ \A i \in 1 .. longer :
                  ret.val[i] = IF i <= Len(b) /\ i <= Len(o) THEN mergeTask(b[i], o[i])
                               ELSE IF i <= Len(b) THEN b[i]
                               ELSE o[i]
             /\ Len(o) = 0 => ret.val = b
    /\ HasReturned("mergeAccount") =>
         LET b == applied.baseAccount.Tasks
             o == applied.overrideAccount.Tasks
             longer == IF Len(b) >= Len(o) THEN Len(b) ELSE Len(o)
         IN  /\ Len(ret.val.Tasks) = longer
             /\ Len(o) = 0 => ret.val.Tasks = b
             /\ \A i \in 1 .. longer :
                  ret.val.Tasks[i] = IF i <= Len(b) /\ i <= Len(o) THEN mergeTask(b[i], o[i])
                                     ELSE IF i <= Len(b) THEN b[i]
                                     ELSE o[i]

\* One base task and two override tasks: the first merged entry is a true
\* merge of the two sides, the second is the override's.
C19_Witness ==
    /\ HasReturned("mergeTasks")
    /\ Len(applied.baseTasks) = 1
    /\ Len(applied.overrideTasks) = 2
    /\ Len(ret.val) = 2
    /\ ret.val[1] # applied.baseTasks[1]
    /\ ret.val[1] # applied.overrideTasks[1]
    /\ ret.val[1].Target = applied.overrideTasks[1].Target
    /\ ret.val[1].Payload = applied.baseTasks[1].Payload
    /\ ret.val[2] = applied.overrideTasks[2]

\* runTasksOnce has returned; it returned at an account boundary because the
\* context was cancelled (scheduler.go:98-100).
OnceReturned == mode = "once" /\ mainPc = "returned"
CancelledAtBoundary == OnceReturned /\ mainIdx <= NAcc

\* C20. Run-once error aggregation: one account's session at a time; the
\* error an account fails with (credentials, client creation, session or
\* authentication, failed submissions) is recorded and the loop goes on to
\* the next account; what runTasksOnce returns combines all recorded errors,
\* and is nil iff no error was recorded and the loop was not left at an
\* account boundary for a cancelled context.
C20_OnceErrorAggregation ==
    mode = "once" =>
        /\ \A a \in Accs :
             sess[a].pc \notin { "idle", "ended" } => (mainPc = "inRun" /\ mainIdx = a)
        /\ \A a \in Accs :
             (a < mainIdx /\ sess[a].pc = "ended") =>
                 /\ sess[a].ret # NoErr =>
                      \E k \in DOMAIN allErrs : allErrs[k] = sess[a].ret
                 /\ \A j \in DOMAIN sess[a].taskErrors :
                      \E k \in DOMAIN allErrs : allErrs[k] = sess[a].taskErrors[j]
        /\ OnceReturned =>
             /\ \A k \in DOMAIN allErrs :
                  \E j \in DOMAIN mainRet : mainRet[j] = allErrs[k]
             /\ (mainRet = << >>) = (allErrs = << >> /\ ~CancelledAtBoundary)

\* An account whose session runs and has met no failure of its own.
Healthy(a) == sess[a].pc \notin { "idle" } /\ sess[a].ret = NoErr

\* C21. Account isolation in daemon mode: RunTasks returns no error, and as
\* long as the signal has not come the process is alive and the session of
\* every account that met no failure of its own keeps running (executor
\* started, submissions made, entries registered and firing), whatever
\* failed in another account.
C21_AccountIsolation ==
    mode = "daemon" =>
        /\ mainRet = << >>
        /\ \A b \in Accs :
             (Healthy(b) /\ ~ctxDone) =>
                 /\ proc = "running"
                 /\ sess[b].pc \notin StopPcs \cup { "ended" }

\* This step put a request with trigger type "scheduled" into a's queue.
ScheduledEnqueueStep(a) ==
    /\ ex'[a].accepted = ex[a].accepted + 1
    /\ ex'[a].queue # << >>
    /\ Last(ex'[a].queue).TriggerType = "scheduled"

\* C22. Once the cancellation signal is set, no scheduled firing enqueues a
\* request: no step taken with the context cancelled puts a request with
\* trigger type "scheduled" into any queue.
C22_NoScheduledAfterCancel ==
    [][ ctxDone => \A a \in Accs : ~ScheduledEnqueueStep(a) ]_vars

\* The identity the claim gives account a: the account's own value when it
\* is set, the global one otherwise.
EffectiveAppID(a) == IF Acc(a).AppID # 0 THEN Acc(a).AppID ELSE cfg.AppID
EffectiveAppHash(a) == IF Acc(a).AppHash # "" THEN Acc(a).AppHash ELSE cfg.AppHash
IdentityAbsent(a) == EffectiveAppID(a) = 0 \/ EffectiveAppHash(a) = ""
MissingIdentity == Err("config", "missing app_id or app_hash")
HasEnabledTask(a) == \E k \in DOMAIN Acc(a).Tasks : Acc(a).Tasks[k].Enabled # "false"

\* The parts of C23 that do not depend on what the account has to run: a
\* client is built with the account's identity when set and the global one
\* otherwise; an account without identity gets no client, session or
\* executor; and the process ends only when the loop is over or the signal
\* has come, never for an account's failure.
IdentityCommon ==
    /\ \A a \in Accs :
         /\ sess[a].pc # "idle" =>
               /\ ~IdentityAbsent(a)
               /\ sess[a].client.appID = EffectiveAppID(a)
               /\ sess[a].client.appHash = EffectiveAppHash(a)
         /\ IdentityAbsent(a) =>
               /\ sess[a] = NoSess
               /\ ex[a] = NoExec
               /\ { e \in entries : e.acc = a } = {}
    /\ (mode = "once" /\ mainPc = "returned") => (mainIdx > NAcc \/ ctxDone)
    /\ mode = "daemon" => mainRet = << >>

\* C23 as stated: every account without identity that run-once has gone
\* past has its error recorded.
C23_IdentityResolutionAsStated ==
    /\ IdentityCommon
    /\ mode = "once" =>
         \A a \in Accs :
             (IdentityAbsent(a) /\ a < mainIdx) =>
                 \E k \in DOMAIN allErrs : allErrs[k] = MissingIdentity

\* C23. Required identity resolution: the effective app id and app hash
\* are the account's when set and the global ones otherwise; an account
\* that has something to run and lacks either gets no client, session or
\* executor, run-once records its error and goes on to the next account,
\* daemon mode passes it over; an account with no enabled task is passed
\* over before its identity is looked at, with no error.
C23_IdentityResolution ==
    /\ IdentityCommon
    /\ mode = "once" =>
         /\ \A a \in Accs :
              (IdentityAbsent(a) /\ a < mainIdx) =>
                  (HasEnabledTask(a) <=>
                      \E k \in DOMAIN allErrs : allErrs[k] = MissingIdentity)
         /\ (\E k \in DOMAIN allErrs : allErrs[k] = MissingIdentity) =>
              \E a \in Accs : IdentityAbsent(a) /\ HasEnabledTask(a) /\ a < mainIdx

\* Run-once has recorded the error of an account without identity and the
\* session of the next account, built with that account's own identity, is
\* running.
C23_Witness ==
    /\ mode = "once"
    /\ proc = "running"
    /\ \E a \in Accs, b \in Accs :
         /\ a < b
         /\ IdentityAbsent(a)
         /\ HasEnabledTask(a)
         /\ allErrs = << MissingIdentity >>
         /\ sess[b].pc \notin { "idle", "auth" }
         /\ sess[b].client.appID = Acc(b).AppID
         /\ Acc(b).AppID # cfg.AppID

\* Something failed that the signal did not cause: an error in allErrs other
\* than a submission the cancelled context turned down.
OtherFailure == \E k \in DOMAIN allErrs : allErrs[k].kind # "failed to submit task"

\* C24. Graceful cancellation in run-once mode: when the signal has arrived
\* (before the first account, between accounts, or during the submissions
\* of the last account) and nothing else failed, RunTasksOnce returns nil or
\* an error that matches context.Canceled, and the process exits with 0.
C24_CancelExitsZero ==
    (mode = "once" /\ mainPc = "returned" /\ ctxDone /\ ~OtherFailure) =>
        /\ mainRet = << >> \/ IsCanceled(mainRet)
        /\ proc = "exit0"

\* The tasks of account a's configuration.
TasksOf(a) == { Acc(a).Tasks[k] : k \in DOMAIN Acc(a).Tasks }

\* Request or execution x, with task t and trigger type tt, belongs to
\* account a: t is a task of a, as configured, and a scheduled one is the
\* task an entry of a was registered for.
BelongsTo(a, t, tt) ==
    /\ t \in TasksOf(a)
    /\ tt \in { "once", "run_on_start", "scheduled" }
    /\ tt = "scheduled" => \E e \in entries : e.acc = a /\ e.task = t

C26_TaskReplyPolicy ==
    \A d \in done :
        << d.replyWaitSeconds, d.replyHistoryLimit >>
            = resolveReplyConfig(cfg, Acc(d.acc), d.task)

\* C27. No submission ever tries to enqueue into a queue Executor.Stop has
\* closed: no SubmitTask call meets a closed queue, whatever the order of
\* cron firings, cancellation and session end, so the process never dies of
\* a send on a closed channel.
C27_NoSendOnClosedQueue == proc # "panic"

\* The enabled run_on_start tasks of account a among its first n tasks, in
\* configuration order.
RECURSIVE RunOnStartPrefix(_, _)
RunOnStartPrefix(a, n) ==
    IF n = 0 THEN << >>
    ELSE LET t == Acc(a).Tasks[n]
         IN  IF isTaskEnabled(t) /\ t.RunOnStart
             THEN Append(RunOnStartPrefix(a, n - 1), t)
             ELSE RunOnStartPrefix(a, n - 1)

\* The tasks of a's first n SubmitTask calls, in call order.
AttemptedTasks(a, n) == [ k \in 1 .. n |-> subLog[a][k].task ]

EntriesOf(a) == { e \in entries : e.acc = a }

\* The parts of C28 before and after the wait: authentication, then the
\* executor, then one submission attempt per enabled run_on_start task in
\* configuration order, then the schedule entries; Stop has returned when
\* the session function has; a failed authentication leaves nothing behind.
SessionOrder(a) ==
    LET all == RunOnStartPrefix(a, Len(Acc(a).Tasks))
    IN  /\ ex[a].created => sess[a].pc \notin { "idle", "auth", "new" }
        /\ (subLog[a] # << >> \/ EntriesOf(a) # {}) => ex[a].created
        /\ sess[a].pc = "runOnStart" =>
              /\ EntriesOf(a) = {}
              /\ AttemptedTasks(a, Len(subLog[a]))
                    = RunOnStartPrefix(a, sess[a].i - 1)
        /\ sess[a].pc \in { "schedule", "wait" } \cup StopPcs \cup { "ended" } =>
              (ex[a].created =>
                  /\ Len(subLog[a]) >= Len(all)
                  /\ AttemptedTasks(a, Len(all)) = all
                  /\ \A k \in (Len(all) + 1) .. Len(subLog[a]) :
                       \E e \in EntriesOf(a) : e.task = subLog[a][k].task)
        /\ (sess[a].pc = "ended" /\ ex[a].created) =>
              /\ ex[a].cancelled /\ ex[a].closed
              /\ \A w \in Workers(a) : ex[a].wpc[w] = "exited"
        /\ sess[a].ret.kind = "auth" =>
              /\ sess[a].pc = "ended"
              /\ ex[a] = NoExec
              /\ subLog[a] = << >>
              /\ EntriesOf(a) = {}

\* C28. Per-account session ordering in daemon mode: authentication before
\* the executor, the executor before any submission, one submission attempt
\* per enabled run_on_start task in configuration order before the first
\* schedule entry of the account, then the session waits for the signal and
\* is left only once it has come, and Executor.Stop has returned before the
\* session function returns; after a failed authentication there is no
\* executor, no submission and no entry.
C28_SessionOrdering ==
    mode = "daemon" =>
        \A a \in Accs :
            /\ SessionOrder(a)
            /\ (ex[a].created /\ sess[a].pc \in StopPcs \cup { "ended" }) => ctxDone

\* C29. Graceful shutdown in daemon mode: the process does not exit before
\* Executor.Stop has returned for every account that has an executor, so no
\* worker is inside a task execution when main returns.
C29_ExitAfterStop ==
    (mode = "daemon" /\ proc = "exit0") =>
        \A a \in Accs :
            ex[a].created =>
                /\ StopReturned(a)
                /\ Executing(a) = {}

\* C30. On cancellation the timer engine of the shared Scheduler is stopped:
\* when main returns after the signal the engine is no longer running.
C30_SchedulerStopped ==
    (mode = "daemon" /\ ctxDone /\ mainPc = "returned") => ~cronRunning

\* Worker w of account a left its select in this step.
WorkerLeavesSelect(a, w) == ex[a].wpc[w] = "select" /\ ex'[a].wpc[w] # "select"

\* C31. Worker termination: once the executor's own context or the caller's
\* context is cancelled, or the queue is closed and empty, a worker at its
\* select does nothing but exit at its next iteration.
C31_WorkerExitsAtNextIteration ==
    [][ \A a \in Accs : \A w \in Workers(a) :
          (WorkerLeavesSelect(a, w)
             /\ (ctxDone \/ ex[a].cancelled \/ (ex[a].closed /\ ex[a].queue = << >>)))
          => ex'[a].wpc[w] = "exited" ]_vars

\* C32. The worker id of a request: a queued request has none (the field
\* has Go's zero value, nothing reads it); the request in the hands of worker
\* w carries w, set when w dequeued it; every execution is logged with the id
\* of the worker that ran it; and the workers of an executor are
\* 0 .. workerCount-1, each id once.
C32_WorkerIdentifier ==
    /\ [] \A a \in Accs :
           ex[a].created =>
               /\ \A r \in QueuedReqs(a) : r.WorkerID = 0
               /\ \A w \in Executing(a) : ex[a].wreq[w].WorkerID = w
               /\ Workers(a) = 0 .. (ex[a].workerCount - 1)
               /\ Cardinality(Workers(a)) = ex[a].workerCount
               /\ \A d \in DoneOf(a) : d.worker \in Workers(a)
    /\ [][ \A a \in Accs : \A w \in Workers(a) :
             /\ (ex[a].wpc[w] = "select" /\ ex'[a].wpc[w] = "exec") =>
                   /\ Head(ex[a].queue).WorkerID = 0
                   /\ ex'[a].wreq[w] = [ Head(ex[a].queue) EXCEPT !.WorkerID = w ]
             /\ ExecReturnStep(a, w) =>
                   \A d \in done' \ done : d.worker = w /\ d.id = ex[a].wreq[w].id
         ]_vars

\* Worker 1 of a two-worker executor has executed a request while another
\* request, not yet assigned, waits in the queue.
C32_Witness ==
    \E a \in Accs :
        /\ \E d \in DoneOf(a) : d.worker = 1
        /\ \E r \in QueuedReqs(a) : r.WorkerID = 0

\* C33. Account-list merge with an empty base list: when the base list is
\* empty and every account of a non-empty override list has a non-blank
\* name, the merge succeeds and returns exactly the override accounts in
\* override order; it does not fail with a length mismatch.
C33_EmptyBaseMerge ==
    /\ (/\ HasReturned("mergeAccounts")
        /\ applied.baseAccounts = << >>
        /\ applied.overrideAccounts # << >>
        /\ AllNonBlank(applied.overrideAccounts))
       => /\ ret.val.err = NoErr
          /\ ret.val.accounts = applied.overrideAccounts
    /\ (/\ HasReturned("MergeConfig")
        /\ applied.base # NilConfig
        /\ applied.override # NilConfig
        /\ applied.base.Accounts = << >>
        /\ applied.override.Accounts # << >>
        /\ AllNonBlank(applied.override.Accounts))
       => /\ ret.val.err = NoErr
          /\ ret.val.cfg.Accounts = applied.override.Accounts

\* What the shared account log and the task log of execution i received.
AccountEventsOf(i) == accountLog[i]
TaskEventsOf(i) == logRun[i].wrote
HasTaskFile(i) == logRun[i].pc # "queued" /\ logRun[i].file # NoFile

\* C34. Any two distinct executions write to different task log files, and
\* the file of an execution holds what that execution wrote: no other
\* execution truncates or overwrites it.
C34_IsolatedTaskLogs ==
    /\ \A i \in DOMAIN logRun : \A j \in DOMAIN logRun :
         (i # j /\ HasTaskFile(i) /\ HasTaskFile(j)) => logRun[i].file # logRun[j].file
    /\ \A i \in DOMAIN logRun :
         HasTaskFile(i) => taskFiles[logRun[i].file] = TaskEventsOf(i)

\* The events of executeTask itself among those of a log: start and outcome.
ExecuteTaskMsgs ==
    { StartMsg(tt) : tt \in TriggerTypes } \cup { FailMsg(tt) : tt \in TriggerTypes }
        \cup { "Task completed successfully" }
OfExecuteTask(log) == SelectSeq(log, LAMBDA ev : ev.msg \in ExecuteTaskMsgs)

\* C35. For every finished execution with a task log, the account log and
\* the task log received the same start and outcome events, in the same
\* order and at the same severity.
C35_DualLogging ==
    \A i \in DOMAIN logRun :
        (logRun[i].pc = "done" /\ HasTaskFile(i)) =>
            OfExecuteTask(AccountEventsOf(i)) = OfExecuteTask(TaskEventsOf(i))

\* The events naming a task that the orchestrator has logged for account a:
\* the queue-full warning of SubmitTask (executor.go:226) and the note of a
\* registered schedule (scheduler.go:309). None reports a skipped task.
TaskEvents(a) ==
    { [ msg |-> "Task queue is full, dropping task", task |-> warns[a][k],
        skipped |-> FALSE ] : k \in DOMAIN warns[a] }
    \cup
    { [ msg |-> "Scheduled task added", task |-> TaskLogName(e.task),
        skipped |-> FALSE ] : e \in { x \in entries : x.acc = a } }

\* The disabled tasks the session of account a has passed over: its loops
\* over acc.Tasks (scheduler.go:168, 277, 286) are behind it.
PassedOverDisabled(a) ==
    { k \in DOMAIN Acc(a).Tasks :
        /\ ~isTaskEnabled(Acc(a).Tasks[k])
        /\ ex[a].created
        /\ sess[a].pc \in { "wait", "stopCancel", "stopClose", "stopWait", "ended" } }

\* C36. Whenever the orchestrator has passed over a disabled task, it has
\* logged an event that names the task as skipped because it is disabled.
C36_DisabledSkipObservable ==
    \A a \in AccountIds :
        a \in Accs =>
            \A k \in PassedOverDisabled(a) :
                \E ev \in TaskEvents(a) :
                    ev.skipped /\ ev.task = TaskLogName(Acc(a).Tasks[k])

\* The errors an execution can end with (executor.go:156, 196-206): what the
\* Messenger call returned, or the unknown method.
IsExecutionError(e) == e.kind \in { "messenger", "unknown method" }
FailedExecutions == { d \in done : d.err # NoErr }

\* Every enabled task of every account was accepted by the account's queue.
AllSubmitted ==
    \A a \in Accs :
        EnabledIdx(a) = {} \/
        (ex[a].created /\ ex[a].accepted = Cardinality(EnabledIdx(a)))

\* C37. No error of an execution is among the errors runTasksOnce collects
\* or returns, in either mode; and a run-once run that went through all
\* accounts and had every enabled task of every account accepted returns
\* nil and exits 0, however many executions failed.
C37_ExecutionFailuresStayOut ==
    /\ \A k \in DOMAIN allErrs : ~IsExecutionError(allErrs[k])
    /\ \A k \in DOMAIN mainRet : ~IsExecutionError(mainRet[k])
    /\ (OnceReturned /\ ~CancelledAtBoundary /\ AllSubmitted) =>
           (mainRet = << >> /\ proc = "exit0")
    /\ (mode = "daemon" /\ mainPc = "returned") => mainRet = << >>

C37_Witness ==
    /\ OnceReturned
    /\ ~CancelledAtBoundary
    /\ AllSubmitted
    /\ mainRet = << >>
    /\ proc = "exit0"
    /\ \E d \in FailedExecutions : d.err.kind = "messenger"
    /\ \E d \in FailedExecutions : d.err.kind = "unknown method"

\* A step that puts a request with trigger type tt at the tail of account
\* a's queue.
EnqueueStep(a, tt) ==
    /\ ex'[a].accepted = ex[a].accepted + 1
    /\ ex'[a].queue # << >>
    /\ Last(ex'[a].queue).TriggerType = tt

\* The trigger type is one a task may be run with in this mode.
TriggerFits(t, tt) ==
    /\ tt \in TriggerTypes
    /\ isTaskEnabled(t)
    /\ mode = "once" => tt = "once"
    /\ mode = "daemon" =>
         \/ tt = "run_on_start" /\ t.RunOnStart
         \/ tt = "scheduled" /\ t.Schedule # ""

\* C38. Every request queued, held by a worker or executed has trigger type
\* run_on_start, scheduled or once, and is for an enabled task; in run-once
\* mode the type is once, and a session past its loop without a failed
\* submission has enqueued every enabled task; in daemon mode run_on_start
\* goes with run_on_start = true and is enqueued by the session's startup
\* loop only, scheduled goes with a non-empty schedule and is enqueued by a
\* firing of that task's entry only; so an enabled task with neither flag is
\* never enqueued in daemon mode.
C38_TriggerClassification ==
    /\ [](\A a \in AccountIds : a \in Accs =>
            /\ \A x \in Submitted(a) : TriggerFits(x[1], x[2])
            /\ (mode = "once" /\ sess[a].pc \in StopPcs \cup { "ended" }
                  /\ ex[a].created /\ sess[a].taskErrors = << >>) =>
                 \A k \in EnabledIdx(a) : << Acc(a).Tasks[k], "once" >> \in Submitted(a))
    /\ [][ \A a \in AccountIds : a \in Accs =>
             /\ EnqueueStep(a, "once") => (mode = "once" /\ sess[a].pc = "submit")
             /\ EnqueueStep(a, "run_on_start") =>
                  (mode = "daemon" /\ sess[a].pc = "runOnStart")
             /\ EnqueueStep(a, "scheduled") =>
                  (mode = "daemon" /\
                   \E e \in firing \ firing' :
                       e.acc = a /\ e.task = Last(ex'[a].queue).Task) ]_vars

C38_Witness ==
    /\ mode = "daemon"
    /\ \E a \in Accs : \E x \in Submitted(a) : x[2] = "run_on_start"
    /\ \E a \in Accs : \E x \in Submitted(a) : x[2] = "scheduled"
    /\ \E a \in Accs : mainIdx > a /\
          \E k \in EnabledIdx(a) :
              ~Acc(a).Tasks[k].RunOnStart /\ Acc(a).Tasks[k].Schedule = ""

\* Nothing the call was given is written: every cell of the memory at the
\* call holds at the return what it held at the call.
ArgumentsUntouched ==
    \A at \in DOMAIN applied.mem : ret.val.mem[at] = applied.mem[at]

\* C39. MergeConfig is a pure transformation with identity elements. It
\* never modifies its base or its override, nor their account and task
\* lists: no cell of memory that existed at the call (the two Config
\* structs, the arrays of their accounts, the arrays of the accounts' tasks)
\* is changed by it, merged or failed. MergeConfig(base, nil) is base and
\* MergeConfig(nil, override) is override, the very pointer, with nothing
\* allocated; with a base that is a configuration and an override whose every
\* field is empty (no accounts) it returns, without error, a new
\* configuration equal to base. The result in memory is the configuration
\* MergeConfig computes from the values of its arguments.
C39_MergeConfigPureIdentity ==
    /\ HasReturned("MergeConfig") =>
          /\ applied.override = NilConfig =>
               ret.val = [ cfg |-> applied.base, err |-> NoErr ]
          /\ applied.base = NilConfig =>
               ret.val = [ cfg |-> applied.override, err |-> NoErr ]
          /\ (applied.base # NilConfig /\ applied.override = ZeroConfig) =>
               ret.val = [ cfg |-> applied.base, err |-> NoErr ]
    /\ HasReturned("MergeConfigMem") =>
          LET base == ConfigAt(applied.mem, applied.basePtr)
              override == ConfigAt(applied.mem, applied.overridePtr)
              merged == ConfigAt(ret.val.mem, ret.val.cfg)
          IN  /\ ArgumentsUntouched
              /\ ConfigAt(ret.val.mem, applied.basePtr) = base
              /\ ConfigAt(ret.val.mem, applied.overridePtr) = override
              /\ applied.overridePtr = 0 =>
                   /\ ret.val.cfg = applied.basePtr
                   /\ ret.val.err = NoErr
                   /\ ret.val.mem = applied.mem
              /\ applied.basePtr = 0 =>
                   /\ ret.val.cfg = applied.overridePtr
                   /\ ret.val.err = NoErr
                   /\ ret.val.mem = applied.mem
              /\ (applied.basePtr # 0 /\ override = ZeroConfig) =>
                   /\ ret.val.cfg \notin DOMAIN applied.mem
                   /\ merged = base
                   /\ ret.val.err = NoErr
              /\ [ cfg |-> merged, err |-> ret.val.err ] = MergeConfig(base, override)

\* MergeConfig has merged, by name, an override that sets the proxy and
\* brings an account with a task into a base with two accounts, one of them
\* with a task of its own: the result is not base, it lies in a new cell and
\* its first account's tasks in a new array, while its second account is
\* base's.
C39_Witness ==
    /\ HasReturned("MergeConfigMem")
    /\ applied.basePtr # 0
    /\ applied.overridePtr \notin { 0, applied.basePtr }
    /\ ret.val.err = NoErr
    /\ ret.val.cfg \notin DOMAIN applied.mem
    /\ LET base == applied.mem[applied.basePtr].c
           override == applied.mem[applied.overridePtr].c
           merged == ret.val.mem[ret.val.cfg].c
       IN  /\ base.Accounts.len = 2
           /\ override.Proxy # "" /\ merged.Proxy = override.Proxy
           /\ merged.Proxy # base.Proxy
           /\ merged.Accounts.len = 2
           /\ merged.Accounts.arr \notin DOMAIN applied.mem
           /\ ElemsAt(ret.val.mem, merged.Accounts)[1].Tasks.arr \notin DOMAIN applied.mem
           /\ ElemsAt(ret.val.mem, merged.Accounts)[2] = ElemsAt(applied.mem, base.Accounts)[2]


============================================================================
